---- MODULE Spec2Model ----
(***************************************************************************)
(* ThinkRecoveryTools, RecoveryUSBMaker.py: the recovery build pipeline    *)
(* (run_recovery_process, post_process_files), the manifest pre-parse      *)
(* (parse_rmf_for_dialog) and the curses main loop that starts the worker  *)
(* thread and drains its progress queue.                                   *)
(*                                                                         *)
(* Text is a sequence of one-character strings.  A path inside the target  *)
(* directory is a sequence of path components (<<>> is the target         *)
(* directory itself).  Attribute values and event fields are strings; an   *)
(* absent XML attribute and an empty one are both "" wherever the code     *)
(* only tests truthiness.                                                  *)
(***************************************************************************)
EXTENDS Naturals, Sequences, FiniteSets, TLC

(* ------------------------------------------------------------------ *)
(* Bounds of the model                                                 *)
(* ------------------------------------------------------------------ *)
\* longest text an input field may hold
MaxInput == 1
\* most <file> nodes in a manifest (manualfiles and files together)
MaxNodes == 2
\* rows of the log window that show log lines (log_win_h - 3)
LogContentH == 2
\* most top-level entries of the overlay directory
MaxPatch == 2
\* most presses of Enter on START that reach the handler
MaxStarts == 2
\* most editing keys (printable characters and Backspace)
MaxEdits == 1

(* ------------------------------------------------------------------ *)
(* Program constants                                                   *)
(* ------------------------------------------------------------------ *)
NUM_INPUTS == 4
ACTION_DONE_TOKEN == "PROCESS_DONE"
INPUT_KEYS == <<"rmf_path", "source_dir", "patch_dir", "target_dir">>
\* one-character stand-ins for the three default paths
DEFAULT_DL == <<"s">>
DEFAULT_PATCH == <<"o">>
DEFAULT_TARGET == <<"t">>
INPUT_FIELDS ==
  [rmf_path |-> <<>>, source_dir |-> DEFAULT_DL,
   patch_dir |-> DEFAULT_PATCH, target_dir |-> DEFAULT_TARGET]

(* ------------------------------------------------------------------ *)
(* Python string helpers                                               *)
(* ------------------------------------------------------------------ *)
IsSpace(c) == c \in {" ", "\t", "\n"}

RECURSIVE LStrip(_)
LStrip(s) == IF s # <<>> /\ IsSpace(Head(s)) THEN LStrip(Tail(s)) ELSE s

RECURSIVE RStrip(_)
RStrip(s) ==
  IF s # <<>> /\ IsSpace(s[Len(s)]) THEN RStrip(SubSeq(s, 1, Len(s) - 1)) ELSE s

\* str.strip()
Strip(s) == RStrip(LStrip(s))

\* str.replace('\t', ' ')
ReplaceTabs(s) == [i \in 1..Len(s) |-> IF s[i] = "\t" THEN " " ELSE s[i]]

\* index of the first c in s, 0 when there is none
RECURSIVE FindFrom(_, _, _)
FindFrom(s, c, i) ==
  IF i > Len(s) THEN 0 ELSE IF s[i] = c THEN i ELSE FindFrom(s, c, i + 1)

Find(s, c) == FindFrom(s, c, 1)

\* str.split(c): the pieces between the occurrences of c
RECURSIVE Split(_, _)
Split(s, c) ==
  LET k == Find(s, c)
  IN IF k = 0 THEN <<s>>
     ELSE <<SubSeq(s, 1, k - 1)>> \o Split(SubSeq(s, k + 1, Len(s)), c)

\* f"{s:<n}": pad with spaces on the right up to n characters
RECURSIVE Ljust(_, _)
Ljust(s, n) == IF Len(s) >= n THEN s ELSE Ljust(s \o <<" ">>, n)

\* '\n'.join(lines)
RECURSIVE JoinLines(_)
JoinLines(lines) ==
  IF lines = <<>> THEN <<>>
  ELSE IF Len(lines) = 1 THEN lines[1]
  ELSE lines[1] \o <<"\n">> \o JoinLines(Tail(lines))

\* str.upper() on the attribute values the model uses
Upper(n) == IF n = "Values.txt" THEN "VALUES.TXT" ELSE n

\* str.strip('/\\') on the copypath values the model uses
StripSep(p) == IF p = "/RECOVERY" THEN "RECOVERY" ELSE p

(* ------------------------------------------------------------------ *)
(* The progress records                                                *)
(* ------------------------------------------------------------------ *)
\* the dict built by the log(...) helpers
LogItem(action, filename, path, result) ==
  [action |-> action, filename |-> filename, path |-> path, result |-> result]

\* format_log: the four columns of one log line (padding to the column
\* widths and the cut of filename and path at 25 characters are layout)
format_log(item) == <<item.action, item.filename, item.path, item.result>>

(* ------------------------------------------------------------------ *)
(* Directory trees: a function from paths to nodes                      *)
(* ------------------------------------------------------------------ *)
DirNode == [kind |-> "dir", data |-> <<>>]
FileNode(data) == [kind |-> "file", data |-> data]
\* a directory that does not exist
NoTree == [p \in {} |-> DirNode]

\* os.path.exists / os.path.isdir / os.path.isfile inside a tree
Exists(t, p) == p \in DOMAIN t
IsDir(t, p) == p \in DOMAIN t /\ t[p].kind = "dir"
IsFile(t, p) == p \in DOMAIN t /\ t[p].kind = "file"

Prefixes(p) == {SubSeq(p, 1, k) : k \in 0..Len(p)}
IsPrefix(p, q) == Len(p) <= Len(q) /\ SubSeq(q, 1, Len(p)) = p
Parent(p) == SubSeq(p, 1, Len(p) - 1)
Under(t, p) == {q \in DOMAIN t : IsPrefix(p, q)}

\* os.makedirs(p, exist_ok=True) raises when a file is in the way
MakedirsOk(t, p) == \A q \in Prefixes(p) : ~IsFile(t, q)
Makedirs(t, p) ==
  [q \in DOMAIN t \cup Prefixes(p) |-> IF q \in DOMAIN t THEN t[q] ELSE DirNode]

\* open(p, 'w') raises when p is a directory or its directory is missing
WriteOk(t, p) == IsDir(t, Parent(p)) /\ ~IsDir(t, p)
WriteFile(t, p, data) ==
  [q \in DOMAIN t \cup {p} |-> IF q = p THEN FileNode(data) ELSE t[q]]

\* shutil.rmtree(p)
Rmtree(t, p) == [q \in DOMAIN t \ Under(t, p) |-> t[q]]

\* the subtree at p, with paths relative to p
Subtree(t, p) ==
  [r \in {SubSeq(q, Len(p) + 1, Len(q)) : q \in Under(t, p)} |-> t[p \o r]]

\* sub, a tree with relative paths, placed at p (what is there is overwritten)
Graft(t, p, sub) ==
  [q \in DOMAIN t \cup {p \o r : r \in DOMAIN sub} |->
     IF IsPrefix(p, q) /\ SubSeq(q, Len(p) + 1, Len(q)) \in DOMAIN sub
     THEN sub[SubSeq(q, Len(p) + 1, Len(q))] ELSE t[q]]

\* os.rename(old, new) of an existing entry
Rename(t, old, new) == Graft(Rmtree(t, old), new, Subtree(t, old))

\* the target subdirectory of a stripped copypath
SubdirPath(copypath_rel) == IF copypath_rel = "" THEN <<>> ELSE <<copypath_rel>>

(* ------------------------------------------------------------------ *)
(* What is on disk besides the target: manifest, sources, overlay       *)
(* ------------------------------------------------------------------ *)
\* The paths an input field can name: "r" is the manifest file, "s" the
\* recovery source directory, "o" the overlay directory; a target
\* directory exists once it has a tree in disk.  The keys a user types are
\* drawn from TypeChars.
RmfPath == <<"r">>
TypeChars == {"r", "x"}
SeqsUpTo(S, n) == UNION {[1..k -> S] : k \in 0..n}

\* files of the recovery source tree, and their bytes
SourceFiles == {"a.bin"}
SourceData(f) == <<"bytes of ", f>>
\* a line as readlines() returns it: its text and whether "\n" ends it
\* (only the last line of a file can lack it, and not with an empty text)
Line(text, nl) == [text |-> text, nl |-> nl]
Ended(text) == Line(<<text>>, TRUE)
\* what the archive a.bin holds: 7z x writes it under -o<dir>
Archive ==
  (<<"MFG">> :> DirNode) @@ (<<"RECOVERY">> :> DirNode)
  @@ (<<"EFI">> :> DirNode) @@ (<<"EFI", "old.efi">> :> FileNode(<<"stock">>))
  @@ (<<"RECOVERY", "AOD.DAT">> :> FileNode(<<Ended("H1"), Ended("H2"), Ended("H3"), Ended("H4"), Ended("old")>>))
\* the lines aodbuild.exe writes to aodstat.dat
RebuiltStat ==
  <<Ended("N1"), Ended("N2"), Ended("N3"), Ended("N4"), Line(<<>>, TRUE), Ended("new")>>

\* <file> nodes under <manualfiles>: name, copypath, text of <fcontent>
\* (<<>> when there is no <fcontent> or it has no text)
CreateNodes ==
  [name : {"", "Values.txt", "RECOVERY"}, copypath : {"", "/RECOVERY"},
   fcontent : {<<>>, <<" ", "a">>}]

\* <file> nodes under <files>
FileNodes ==
  {n \in [source : {"", "a.bin", "nope.bin"}, copy : {"", "0", "1"},
          copypath : {"", "/RECOVERY"}, key : {"", "k"}, name : {"", "b.bin"}] :
     /\ n.source = "" => n.copy = "1" /\ n.copypath = "" /\ n.key = "" /\ n.name = ""
     /\ n.source = "nope.bin" => n.copy # "" /\ n.key = "" /\ n.name = ""
     /\ n.key # "" => n.copy = "0"
     /\ n.name # "" => n.copy = "1"}

\* a parsed manifest: root with a <recovery> node; an absent <manualfiles>
\* or <files> element is the empty list (the code treats both alike)
Rmf(manualfiles, files) ==
  [xml |-> "ok", manualfiles |-> manualfiles, files |-> files]
\* a document ET.parse rejects, and one without a <recovery> node
MalformedRmf == [xml |-> "malformed", manualfiles |-> <<>>, files |-> <<>>]
NoRecoveryRmf == [xml |-> "norecovery", manualfiles |-> <<>>, files |-> <<>>]
\* rmf_root = None
NoRoot == [xml |-> "none", manualfiles |-> <<>>, files |-> <<>>]

Manifests ==
  UNION {{Rmf(c, f) : f \in SeqsUpTo(FileNodes, MaxNodes - Len(c))} :
           c \in SeqsUpTo(CreateNodes, MaxNodes)}

\* top-level entries of the overlay directory, in os.listdir order: the
\* words of a .cri file that the ARM check looks for, and whether the
\* payload <base>.IMZ lies beside it
CriTexts == {{}, {"ARM"}, {"ARM", "OS"}, {"ARM", "PLATFORM"}}
OverlayEntries ==
  [name : {"X.CRI", "Y.cri"}, text : CriTexts, imz : BOOLEAN]
  \cup [name : {"notes.txt"}, text : {{}}, imz : {FALSE}]
Listings ==
  {l \in SeqsUpTo(OverlayEntries, MaxPatch) :
     \A i, j \in 1..Len(l) : i # j => l[i].name # l[j].name}
\* EFI content of the overlay
OverlayEfi == (<<>> :> DirNode) @@ (<<"bootx64.efi">> :> FileNode(<<"patched">>))
Overlays == [efi : BOOLEAN, listing : Listings]
NoOverlay == [efi |-> FALSE, listing |-> <<>>]

\* os.path.splitext(filename)[0] + '.IMZ' for the overlay's names
ImzName(filename) ==
  IF filename = "X.CRI" THEN "X.IMZ" ELSE IF filename = "Y.cri" THEN "Y.IMZ"
  ELSE "notes.IMZ"
\* filename.lower().endswith('.cri')
IsCri(filename) == filename \in {"X.CRI", "Y.cri"}
\* "ARM" in content and ("OS" in content or "PLATFORM" in content)
looksLikeArm(text) == "ARM" \in text /\ ("OS" \in text \/ "PLATFORM" \in text)

(* ------------------------------------------------------------------ *)
(* The obfuscation transform                                           *)
(* ------------------------------------------------------------------ *)
\* IMZ_PW_CHARS = "k`gybs0vampjd", as code points
IMZ_PW_CHARS == <<107, 96, 103, 121, 98, 115, 48, 118, 97, 109, 112, 106, 100>>
\* ord() of the characters of a key attribute
KeyCodes(key) == IF key = "" THEN <<>> ELSE <<107>>

\* the transform with i counted from 1
encrypt_one_based(clear_password) ==
  [i \in 1..Len(clear_password) |->
     (IMZ_PW_CHARS[(clear_password[i] % 13) + 1] + 2) - (i % 3)]
\* the transform without its + 2
encrypt_without_shift(clear_password) ==
  [i \in 1..Len(clear_password) |->
     IMZ_PW_CHARS[(clear_password[i] % 13) + 1] - ((i - 1) % 3)]
\* encrypt_imz_password, on code points
encrypt_imz_password(clear_password) ==
  [i \in 1..Len(clear_password) |->
     (IMZ_PW_CHARS[(clear_password[i] % 13) + 1] + 2) - ((i - 1) % 3)]

(* ------------------------------------------------------------------ *)
(* parse_rmf_for_dialog                                                *)
(* ------------------------------------------------------------------ *)
\* values_txt_content: None, or a text
None == [none |-> TRUE, text |-> <<>>]
Some(text) == [none |-> FALSE, text |-> text]
\* Python truthiness of values_txt_content
Truthy(v) == ~v.none /\ v.text # <<>>

\* a line shown as it is
FormatLineRaw(line) == line
\* one line of VALUES.TXT as the dialog shows it
FormatLine(line) ==
  LET k == Find(line, ":")
  IN IF k = 0 THEN Strip(line)
     ELSE Ljust(Strip(SubSeq(line, 1, k - 1)), 8) \o <<":", "\t">>
          \o Strip(SubSeq(line, k + 1, Len(line)))

FormatValues(text) ==
  LET content == ReplaceTabs(Strip(text))
      lines == SelectSeq(Split(content, "\n"), LAMBDA l : Strip(l) # <<>>)
  IN JoinLines([i \in 1..Len(lines) |-> FormatLine(lines[i])])

\* the loop over manualfiles: the first VALUES.TXT node with text decides
RECURSIVE ValuesTxtContent(_, _)
ValuesTxtContent(nodes, i) ==
  IF i > Len(nodes) THEN None
  ELSE IF Upper(nodes[i].name) = "VALUES.TXT" /\ nodes[i].fcontent # <<>>
       THEN Some(FormatValues(nodes[i].fcontent))
       ELSE ValuesTxtContent(nodes, i + 1)

(* ------------------------------------------------------------------ *)
(* State                                                               *)
(* ------------------------------------------------------------------ *)
VARIABLES
  env,                \* read-only files: [rmf: the manifest at "r", overlay]
  disk,               \* target directory path -> its tree
  log_queue,          \* queue.Queue of progress records
  threads,            \* the live worker threads, each with its locals
  focus_index,        \* main(): focused widget, NUM_INPUTS is the START button
  is_running,
  input_values,
  log_lines,
  log_scroll_offset,
  user_scrolled,
  ui,                 \* main(): where the loop is, and the Enter handler's locals
  req                 \* history: the last build request and how it went

uiVars ==
  <<focus_index, is_running, input_values, log_lines, log_scroll_offset,
    user_scrolled, ui, req>>
vars == <<env, disk, log_queue, threads, uiVars>>

\* os.path.exists of a path an input field names
PathExists(p) == p \in {RmfPath, DEFAULT_DL, DEFAULT_PATCH} \/ p \in DOMAIN disk
\* os.path.exists(os.path.join(source_dir, source_file))
SourceExists(source_dir, source_file) ==
  source_dir = DEFAULT_DL /\ source_file \in SourceFiles

(* ------------------------------------------------------------------ *)
(* run_recovery_process: one worker thread                              *)
(* ------------------------------------------------------------------ *)
\* History kept with each thread: run_log, what this run enqueued and which
\* step did (by); visited, the nodes in the order the loops took them;
\* caught, one entry per failure the run handled, with the number of
\* progress records that describe it; cmds, the external invocations.
NewThread(rmf_root, source_dir, patch_dir, target_dir, confirmed) ==
  [pc |-> "init", idx |-> 1, rmf_root |-> rmf_root, source_dir |-> source_dir,
   patch_dir |-> patch_dir, target_dir |-> target_dir, copied_cri_name |-> "",
   confirmed |-> confirmed, run_log |-> <<>>, visited |-> <<>>,
   caught |-> <<>>, cmds |-> <<>>]

Origin(phase, pos) == [phase |-> phase, pos |-> pos]
Item(by, action, filename, path, result) ==
  [ev |-> LogItem(action, filename, path, result), by |-> by]

Tree(th) == IF th.target_dir \in DOMAIN disk THEN disk[th.target_dir] ELSE NoTree

\* the end of a worker step: its records are put on the queue in order
Commit(k, th2, items, tree2) ==
  /\ threads' = [threads EXCEPT ![k] = [th2 EXCEPT !.run_log = @ \o items]]
  /\ log_queue' = log_queue \o [i \in 1..Len(items) |-> items[i].ev]
  /\ disk' = IF tree2 = Tree(threads[k]) THEN disk
             ELSE (threads[k].target_dir :> tree2) @@ disk
  /\ UNCHANGED <<env, uiVars>>

\* a handler that caught a failure and logged n records for it
CaughtAndRaised(th, by, n) ==
  [th EXCEPT !.caught = Append(@, [at |-> by, events |-> n]), !.pc = "finally"]
Caught(th, by, n) ==
  [th EXCEPT !.caught = Append(@, [at |-> by, events |-> n])]

\* except Exception as e: log("FATAL", ...), then the finally block
Fatal(th, by) == [Caught(th, by, 1) EXCEPT !.pc = "finally"]
FatalItem(by) == Item(by, "FATAL", "Main Loop", "", "str(e)")

\* os.makedirs(target_dir) fails for the empty path and for a file
RootOk(target_dir) == target_dir # <<>> /\ target_dir # RmfPath

\* findall('file') yields the nodes in document order
NodeOrderReversed(n) == [i \in 1..n |-> (n + 1) - i]
NodeOrder(n) == [i \in 1..n |-> i]

\* step 1: create the target directory
RunInit(k) ==
  LET th == threads[k]
      by == Origin("init", 0)
  IN /\ th.pc = "init"
     /\ IF RootOk(th.target_dir)
        THEN Commit(k, [th EXCEPT !.pc = "manualfiles", !.idx = 1],
                    <<Item(by, "INIT", "Target Dir", "target_dir", "Created/Verified")>>,
                    Makedirs(Tree(th), <<>>))
        ELSE Commit(k, Fatal(th, by), <<FatalItem(by)>>, Tree(th))

\* step 2: one node of manualfiles
RunCreate(k) ==
  LET th == threads[k]
      nodes == th.rmf_root.manualfiles
  IN /\ th.pc = "manualfiles"
     /\ IF th.idx > Len(nodes)
        THEN Commit(k, [th EXCEPT !.pc = "files", !.idx = 1], <<>>, Tree(th))
        ELSE
          LET pos == NodeOrder(Len(nodes))[th.idx]
              file_node == nodes[pos]
              by == Origin("create", pos)
              th1 == [th EXCEPT !.idx = @ + 1, !.visited = Append(@, by)]
              filename == file_node.name
              copypath_rel == StripSep(file_node.copypath)
              dir == SubdirPath(copypath_rel)
              full_target_path == dir \o <<filename>>
              tree == Tree(th)
              log_msg == IF Upper(filename) = "VALUES.TXT"
                         THEN "Content Verified (Written)" ELSE "Success"
          IN IF filename # "" /\ file_node.fcontent # <<>>
             THEN IF ~MakedirsOk(tree, dir)
                  THEN Commit(k, Fatal(th1, by), <<FatalItem(by)>>, tree)
                  ELSE IF WriteOk(Makedirs(tree, dir), full_target_path)
                  THEN Commit(k, th1,
                              <<Item(by, "CREATE", filename, copypath_rel, log_msg)>>,
                              WriteFile(Makedirs(tree, dir), full_target_path,
                                        Strip(file_node.fcontent)))
                  ELSE Commit(k, Caught(th1, by, 1),
                              <<Item(by, "CREATE", filename, copypath_rel, "Error: e")>>,
                              Makedirs(tree, dir))
             ELSE Commit(k, th1, <<>>, tree)

\* what 7z x does on success needs every archive entry to fit the target
ExtractOk(tree, dir) ==
  \A r \in DOMAIN Archive :
    /\ MakedirsOk(tree, Parent(dir \o r))
    /\ Archive[r].kind = "dir" => ~IsFile(tree, dir \o r)
    /\ Archive[r].kind = "file" => ~IsDir(tree, dir \o r)

\* how the copy or the 7z invocation of a node can end
TransferOutcomes(copy_action, tree, dir) ==
  IF copy_action = "1" THEN {"ok", "error"}
  ELSE IF copy_action = "0"
       THEN {"fail", "notfound", "exception"}
            \cup (IF ExtractOk(tree, dir) THEN {"ok"} ELSE {})
       ELSE {"none"}

\* a copy that keeps a file that is there and writes beside it
CopyBeside(tree, dst, basename) ==
  IF IsDir(tree, dst) THEN dst \o <<basename>>
  ELSE IF IsFile(tree, dst) THEN Parent(dst) \o <<"copy">> ELSE dst
\* shutil.copy2(src, dst): into dst when dst is a directory
CopyDest(tree, dst, basename) == IF IsDir(tree, dst) THEN dst \o <<basename>> ELSE dst

\* except FileNotFoundError: the failure is logged and the loop goes on
AbortOnToolNotFound(th, by) == Fatal(th, by)
ToolNotFound(th, by) == Caught(th, by, 1)

\* a command line that always carries -p
AlwaysPasswordArg(password) == TRUE
\* `if password: cmd.append(f'-p{password}')`
HasPasswordArg(password) == password # <<>>

\* step 3: one node of files
RunFile(k) ==
  LET th == threads[k]
      all_files == th.rmf_root.files
  IN /\ th.pc = "files"
     /\ IF th.idx > Len(all_files)
        THEN Commit(k, [th EXCEPT !.pc = "post_mfg", !.idx = 1], <<>>, Tree(th))
        ELSE
          LET pos == NodeOrder(Len(all_files))[th.idx]
              file_node == all_files[pos]
              by == Origin("file", pos)
              th1 == [th EXCEPT !.idx = @ + 1, !.visited = Append(@, by)]
              source_file == file_node.source
              copy_action == file_node.copy
              copypath_rel == StripSep(file_node.copypath)
              final_name == IF file_node.name # "" THEN file_node.name ELSE source_file
              target_subdir == SubdirPath(copypath_rel)
              tree == Tree(th)
              tree1 == Makedirs(tree, target_subdir)
              password == encrypt_imz_password(KeyCodes(file_node.key))
              cmd == [exe |-> "7z", source |-> source_file, out |-> copypath_rel,
                      with_p |-> HasPasswordArg(password), password |-> password]
              th2 == [th1 EXCEPT !.cmds = Append(@, cmd)]
          IN IF source_file = "" THEN Commit(k, th1, <<>>, tree)
             ELSE IF ~MakedirsOk(tree, target_subdir)
             THEN Commit(k, Fatal(th1, by), <<FatalItem(by)>>, tree)
             ELSE IF ~SourceExists(th.source_dir, source_file)
             THEN Commit(k, th1,
                         <<Item(by, "MISSING", source_file, "", "Source not found")>>,
                         tree1)
             ELSE \E out \in TransferOutcomes(copy_action, tree1, target_subdir) :
               CASE out = "none" -> Commit(k, th1, <<>>, tree1)
                 [] out = "ok" /\ copy_action = "1" ->
                      Commit(k, th1,
                             <<Item(by, "COPY", source_file, copypath_rel, "Success")>>,
                             WriteFile(tree1,
                                       CopyDest(tree1, target_subdir \o <<final_name>>,
                                                source_file),
                                       SourceData(source_file)))
                 [] out = "error" ->
                      Commit(k, Caught(th1, by, 1),
                             <<Item(by, "COPY", source_file, copypath_rel, "Error: e")>>,
                             tree1)
                 [] out = "ok" /\ copy_action = "0" ->
                      Commit(k, th2,
                             <<Item(by, "UNPACK", source_file, copypath_rel, "Success")>>,
                             Graft(tree1, target_subdir, Archive))
                 [] out = "fail" ->
                      Commit(k, Caught(th2, by, 1),
                             <<Item(by, "UNPACK", source_file, copypath_rel, "Fail (error_output)")>>,
                             tree1)
                 [] out = "notfound" ->
                      Commit(k, ToolNotFound(th2, by),
                             <<Item(by, "UNPACK", "7z.exe", "", "Not Found in Path")>>,
                             tree1)
                 [] out = "exception" ->
                      Commit(k, Caught(th2, by, 1),
                             <<Item(by, "UNPACK", source_file, "", "Exception: e")>>,
                             tree1)

(* ------------------------------------------------------------------ *)
(* post_process_files, called by the worker                            *)
(* ------------------------------------------------------------------ *)
\* patch_source and os.path.exists(patch_source)
PatchUsable(patch_source) == patch_source # <<>> /\ PathExists(patch_source)
\* the overlay directory a patch path names; another existing path has
\* neither an EFI directory nor .cri files
OverlayAt(patch_source) ==
  IF patch_source = DEFAULT_PATCH THEN env.overlay ELSE NoOverlay
\* os.listdir(patch_source) raises for a path that is a file
ListdirOk(patch_source) == patch_source # RmfPath

MFG == <<"MFG">>
mfg == <<"mfg">>
EFI == <<"EFI">>
target_rec_dir == <<"RECOVERY">>
aod_dat == <<"RECOVERY", "AOD.DAT">>
aod_org == <<"RECOVERY", "AOD.ORG">>
aod_stat == <<"RECOVERY", "aodstat.dat">>

\* 1. rename MFG -> mfg
RunPostMfg(k) ==
  LET th == threads[k]
      by == Origin("post", 1)
      tree == Tree(th)
      th1 == [th EXCEPT !.pc = IF PatchUsable(th.patch_dir) THEN "post_efi"
                                ELSE "post_aod"]
  IN /\ th.pc = "post_mfg"
     /\ IF IsDir(tree, MFG)
        THEN \E ok \in BOOLEAN :
               IF ok
               THEN Commit(k, th1,
                           <<Item(by, "MODIFY", "Folder MFG", "root", "Renamed to 'mfg'")>>,
                           Rename(tree, MFG, mfg))
               ELSE Commit(k, Caught(th1, by, 1),
                           <<Item(by, "MODIFY", "Folder MFG", "", "Error: e")>>, tree)
        ELSE Commit(k, th1, <<>>, tree)

\* copytree into the EFI directory that is there, without the rmtree
MergeEfi(tree, source_efi) == Graft(tree, EFI, source_efi)
\* if exists(target_efi): rmtree(target_efi); copytree(source_efi, target_efi)
OverwriteEfi(tree, source_efi) == Graft(Rmtree(tree, EFI), EFI, source_efi)

\* 2. overwrite EFI from the overlay; a failure may come before or after
\* the old EFI directory was removed
RunPostEfi(k) ==
  LET th == threads[k]
      by == Origin("post", 2)
      tree == Tree(th)
      th1 == [th EXCEPT !.pc = "post_cri"]
  IN /\ th.pc = "post_efi"
     /\ IF OverlayAt(th.patch_dir).efi
        THEN \E out \in {"ok", "rmtree_failed", "copytree_failed"} :
               IF out = "ok" /\ ~IsFile(tree, EFI)
               THEN Commit(k, th1,
                           <<Item(by, "COPY", "EFI Folder", "root", "Overwritten from Patch")>>,
                           OverwriteEfi(tree, OverlayEfi))
               ELSE Commit(k, Caught(th1, by, 1),
                           <<Item(by, "COPY", "EFI Folder", "", "Error: e")>>,
                           IF out = "copytree_failed" /\ IsDir(tree, EFI)
                           THEN Rmtree(tree, EFI) ELSE tree)
        ELSE Commit(k, th1, <<>>, tree)

\* 3. makedirs(RECOVERY) and listdir(patch_source)
RunPostCri(k) ==
  LET th == threads[k]
      by == Origin("post", 3)
      tree == Tree(th)
      failed == Caught([th EXCEPT !.pc = "post_aod"], by, 1)
      error == <<Item(by, "COPY", "CRI/IMZ", "", "Error: e")>>
  IN /\ th.pc = "post_cri"
     /\ IF ~MakedirsOk(tree, target_rec_dir) THEN Commit(k, failed, error, tree)
        ELSE IF ~ListdirOk(th.patch_dir)
        THEN Commit(k, failed, error, Makedirs(tree, target_rec_dir))
        ELSE Commit(k, [th EXCEPT !.pc = "post_cri_scan", !.idx = 1], <<>>,
                    Makedirs(tree, target_rec_dir))

\* how reading a listed .cri file and copying the pair can end
ReadOutcomes(entry) == IF IsCri(entry.name) THEN {TRUE, FALSE} ELSE {TRUE}
PairOutcomes(entry, is_arm) ==
  IF IsCri(entry.name) /\ ~is_arm /\ entry.imz
  THEN {"ok", "cri_failed", "imz_failed"} ELSE {"none"}

\* without the `break` the loop goes on to the next entry
KeepScanning == "post_cri_scan"
\* `break # Only process the first valid pair` leaves the loop
AfterAdopted == "post_aod"

\* 3. one entry of the listing
RunPostCriScan(k) ==
  LET th == threads[k]
      by == Origin("post", 3)
      tree == Tree(th)
      patch_files == OverlayAt(th.patch_dir).listing
  IN /\ th.pc = "post_cri_scan"
     /\ IF th.idx > Len(patch_files)
        THEN Commit(k, [th EXCEPT !.pc = "post_aod"], <<>>, tree)
        ELSE
          LET entry == patch_files[th.idx]
              filename == entry.name
              next == [th EXCEPT !.idx = @ + 1]
          IN \E readable \in ReadOutcomes(entry) :
               LET is_arm == readable /\ looksLikeArm(entry.text)
                   \* except: pass
                   th1 == IF readable THEN next ELSE Caught(next, by, 0)
                   with_cri == WriteFile(tree, target_rec_dir \o <<filename>>, <<"cri">>)
               IN \E out \in PairOutcomes(entry, is_arm) :
                    IF ~IsCri(filename) THEN Commit(k, next, <<>>, tree)
                    ELSE IF is_arm
                    THEN Commit(k, th1,
                                <<Item(by, "SKIP", filename, "", "ARM Architecture detected")>>,
                                tree)
                    ELSE IF out = "none" THEN Commit(k, th1, <<>>, tree)
                    ELSE IF out = "ok"
                    THEN Commit(k, [th1 EXCEPT !.pc = AfterAdopted,
                                               !.copied_cri_name = filename],
                                <<Item(by, "COPY", filename, "RECOVERY", "Copied from Patch")>>,
                                WriteFile(with_cri, target_rec_dir \o <<ImzName(filename)>>,
                                          <<"imz">>))
                    ELSE Commit(k, Caught([th1 EXCEPT !.pc = "post_aod"], by, 1),
                                <<Item(by, "COPY", "CRI/IMZ", "", "Error: e")>>,
                                IF out = "imz_failed" THEN with_cri ELSE tree)

\* not line.strip(): the text is empty or white space only
IsBlank(line) == \A i \in 1..Len(line.text) : line.text[i] = " "
\* the lines of the file f_out.writelines(lines) leaves: a line that does
\* not end in "\n" runs into the one written after it
RECURSIVE Written(_)
Written(lines) ==
  IF Len(lines) <= 1 THEN lines
  ELSE IF lines[1].nl THEN <<lines[1]>> \o Written(Tail(lines))
  ELSE Written(<<Line(lines[1].text \o lines[2].text, lines[2].nl)>>
               \o SubSeq(lines, 3, Len(lines)))
\* the header splice: content_lines[:4] = header_lines, blank lines go
Splice(org, dat) ==
  Written(SelectSeq(SubSeq(org, 1, 4) \o SubSeq(dat, 5, Len(dat)),
                    LAMBDA line : ~IsBlank(line)))

\* the `return` after "Tool missing" leaves post_process_files at once
AfterToolMissing == "status"

\* a guard that looks at the index only
SkippedWithoutIndex(th, tree) == ~Exists(tree, aod_dat)
\* `if copied_cri_name:` and `if os.path.exists(aod_dat):`
RebuildSkipped(th, tree) == th.copied_cri_name = "" \/ ~Exists(tree, aod_dat)

\* 4. AOD processing
RunPostAod(k) ==
  LET th == threads[k]
      by == Origin("post", 4)
      tree == Tree(th)
      done == [th EXCEPT !.pc = "post_status"]
      renamed == Rename(tree, aod_dat, aod_org)
  IN /\ th.pc = "post_aod"
     /\ IF RebuildSkipped(th, tree)
        THEN Commit(k, done, <<>>, tree)
        ELSE \E out \in {"rename_failed", "tool_missing", "run_exception", "ran"} :
             \E rc \in {0, 1}, produced \in BOOLEAN :
               LET cmd == [exe |-> "aodbuild", source |-> th.copied_cri_name,
                           out |-> "AOD.ORG", with_p |-> FALSE, password |-> <<>>]
                   ran == [done EXCEPT !.cmds = Append(@, cmd)]
                   exec == IF rc = 0
                           THEN Item(by, "EXEC", "aodbuild.exe", "RECOVERY", "Success")
                           ELSE Item(by, "EXEC", "aodbuild.exe", "", "Fail: stderr")
                   built == IF produced
                            THEN WriteFile(renamed, aod_stat, RebuiltStat) ELSE renamed
                   moved == Rename(built, aod_stat, aod_dat)
                   org == renamed[aod_org].data
               IN CASE out = "rename_failed" ->
                         Commit(k, Caught(done, by, 1),
                                <<Item(by, "ERROR", "AOD Processing", "", "str(e)")>>, tree)
                    [] out = "tool_missing" ->
                         Commit(k, Caught([th EXCEPT !.pc = AfterToolMissing], by, 1),
                                <<Item(by, "ERROR", "aodbuild.exe", "", "Tool missing in script dir")>>,
                                renamed)
                    [] out = "run_exception" ->
                         Commit(k, Caught(ran, by, 1),
                                <<Item(by, "ERROR", "AOD Processing", "", "str(e)")>>, renamed)
                    [] out = "ran" /\ ~Exists(built, aod_stat) ->
                         Commit(k, Caught(ran, by, 1),
                                <<exec, Item(by, "ERROR", "aodstat.dat", "", "Not generated by aodbuild")>>,
                                built)
                    [] out = "ran" /\ Exists(built, aod_stat) /\ Len(org) < 4 ->
                         Commit(k, Caught(ran, by, 1),
                                <<exec, Item(by, "ERROR", "AOD Processing", "", "str(e)")>>,
                                moved)
                    [] out = "ran" /\ Exists(built, aod_stat) /\ Len(org) >= 4 ->
                         Commit(k, ran,
                                <<exec, Item(by, "MODIFY", "AOD.DAT", "RECOVERY", "Header updated & Cleaned")>>,
                                WriteFile(moved, aod_dat, Splice(org, moved[aod_dat].data)))

\* the last statement of post_process_files
RunPostStatus(k) ==
  LET th == threads[k]
  IN /\ th.pc = "post_status"
     /\ Commit(k, [th EXCEPT !.pc = "status"],
               <<Item(Origin("post", 5), "STATUS", "", "", "Post-processing complete.")>>,
               Tree(th))

\* log("STATUS", "", "", "Recovery Creation Completed!")
RunStatus(k) ==
  LET th == threads[k]
  IN /\ th.pc = "status"
     /\ Commit(k, [th EXCEPT !.pc = "finally"],
               <<Item(Origin("status", 0), "STATUS", "", "", "Recovery Creation Completed!")>>,
               Tree(th))

\* finally: the token is put on every path
FinallyItemsUnlessFatal(th) ==
  IF \E i \in 1..Len(th.run_log) : th.run_log[i].ev.action = "FATAL" THEN <<>>
  ELSE <<Item(Origin("done", 0), ACTION_DONE_TOKEN, "", "", "Finished")>>
FinallyItems(th) ==
  <<Item(Origin("done", 0), ACTION_DONE_TOKEN, "", "", "Finished")>>

RunFinally(k) ==
  LET th == threads[k]
  IN /\ th.pc = "finally"
     /\ Commit(k, [th EXCEPT !.pc = "exit"], FinallyItems(th), Tree(th))

\* the thread function returns
RunExit(k) ==
  /\ threads[k].pc = "exit"
  /\ threads' = SubSeq(threads, 1, k - 1) \o SubSeq(threads, k + 1, Len(threads))
  /\ UNCHANGED <<env, disk, log_queue, uiVars>>

\* threading.Thread(target=run_recovery_process, ...): not a daemon, so a
\* started thread runs whatever the main loop does
RunnableWhileLooping == IF ui.pc = "exit" THEN {} ELSE 1..Len(threads)
Runnable == 1..Len(threads)

\* the steps of the live worker threads
WorkerNext ==
  \/ \E k \in Runnable : RunInit(k)
  \/ \E k \in Runnable : RunCreate(k)
  \/ \E k \in Runnable : RunFile(k)
  \/ \E k \in Runnable : RunPostMfg(k)
  \/ \E k \in Runnable : RunPostEfi(k)
  \/ \E k \in Runnable : RunPostCri(k)
  \/ \E k \in Runnable : RunPostCriScan(k)
  \/ \E k \in Runnable : RunPostAod(k)
  \/ \E k \in Runnable : RunPostStatus(k)
  \/ \E k \in Runnable : RunStatus(k)
  \/ \E k \in Runnable : RunFinally(k)
  \/ \E k \in Runnable : RunExit(k)


(* ------------------------------------------------------------------ *)
(* parse_rmf_for_dialog                                                *)
(* ------------------------------------------------------------------ *)
\* the document ET.parse reads at rmf_path: the manifest at "r"; any other
\* existing path is a directory, which ET.parse cannot open
ReadRmf(rmf_path) == IF rmf_path = RmfPath THEN env.rmf ELSE MalformedRmf

\* [root, values_txt_content, items]: items are the records it logs
parse_unchecked(rmf_path) ==
  [root |-> ReadRmf(rmf_path),
   values_txt_content |-> ValuesTxtContent(ReadRmf(rmf_path).manualfiles, 1),
   items |-> <<>>]
parse_rmf_for_dialog(rmf_path) ==
  LET doc == ReadRmf(rmf_path)
      failed(result) ==
        [root |-> NoRoot, values_txt_content |-> None,
         items |-> <<LogItem("ERROR", "basename(rmf_path)", "", result)>>]
  IN IF ~PathExists(rmf_path) THEN failed("RMF file not found.")
     ELSE IF doc.xml = "malformed" THEN failed("XML Parse Fail: str(e)")
     ELSE IF doc.xml = "norecovery" THEN failed("Node 'recovery' not found in RMF.")
     ELSE [root |-> doc,
           values_txt_content |-> ValuesTxtContent(doc.manualfiles, 1),
           items |-> <<>>]

(* ------------------------------------------------------------------ *)
(* main(): the curses loop                                             *)
(* ------------------------------------------------------------------ *)
\* ui.pc: "drain" is part B of the loop body, "input" the getch of part C,
\* "dialog" the getch of show_modal_dialog, "exit" after the loop.
Looping == [pc |-> "input", focus |-> 0, rmf_root |-> NoRoot]

Max(a, b) == IF a >= b THEN a ELSE b
Min(a, b) == IF a <= b THEN a ELSE b

\* the log lines main() writes itself
StatusLine(filename, path, result) ==
  format_log(LogItem("STATUS", filename, path, result))

\* log_queue.get_nowait(): the oldest record
get_newest(q) == q[Len(q)]
get_nowait(q) == Head(q)

\* B. one record taken from the queue
ProcessLogQueue ==
  /\ ui.pc = "drain"
  /\ log_queue # <<>>
  /\ LET log_item == get_nowait(log_queue)
         lines == IF log_item.action = ACTION_DONE_TOKEN
                  THEN Append(log_lines, StatusLine("Process", "Execution", "Finished."))
                  ELSE Append(log_lines, format_log(log_item))
     IN /\ log_queue' = Tail(log_queue)
        /\ is_running' = IF log_item.action = ACTION_DONE_TOKEN THEN FALSE
                         ELSE is_running
        /\ log_lines' = lines
        /\ log_scroll_offset' = IF ~user_scrolled
                                THEN Max(0, Len(lines) - LogContentH)
                                ELSE log_scroll_offset
  /\ UNCHANGED <<env, disk, threads, focus_index, input_values, user_scrolled, ui, req>>

\* log_queue.empty(), asked before every get
blocks_until_put(q) == FALSE
\* a drain loop that may stop with records left
stops_early(q) == TRUE
queue_empty(q) == q = <<>>

\* B. log_queue.empty(): the loop goes on to getch
QueueEmpty ==
  /\ ui.pc = "drain"
  /\ queue_empty(log_queue)
  /\ ui' = [ui EXCEPT !.pc = "input"]
  /\ UNCHANGED <<env, disk, log_queue, threads, focus_index, is_running,
                 input_values, log_lines, log_scroll_offset, user_scrolled, req>>

\* the next iteration of the while loop
Continue == ui' = [Looping EXCEPT !.pc = "drain"]

\* C. getch timed out (-1), or KEY_RESIZE, or a key no branch handles
KeyIgnored ==
  /\ ui.pc = "input"
  /\ Continue
  /\ UNCHANGED <<env, disk, log_queue, threads, focus_index, is_running,
                 input_values, log_lines, log_scroll_offset, user_scrolled, req>>

\* C. q or Q
KeyQuit ==
  /\ ui.pc = "input"
  /\ ui' = [Looping EXCEPT !.pc = "exit"]
  /\ UNCHANGED <<env, disk, log_queue, threads, focus_index, is_running,
                 input_values, log_lines, log_scroll_offset, user_scrolled, req>>

\* `if is_running:` ... `continue`: no key below it is handled during a run
NoGate == FALSE
RunningGate == is_running

\* C. Up / Down while a build runs: scrolling
KeyScroll ==
  /\ ui.pc = "input"
  /\ RunningGate
  /\ LET max_scroll == Max(0, Len(log_lines) - LogContentH)
     IN \E c \in {"KEY_UP", "KEY_DOWN"} :
          IF c = "KEY_UP"
          THEN /\ log_scroll_offset' = Max(0, log_scroll_offset - 1)
               /\ user_scrolled' = TRUE
          ELSE /\ log_scroll_offset' = Min(max_scroll, log_scroll_offset + 1)
               /\ user_scrolled' = IF log_scroll_offset' = max_scroll THEN FALSE
                                   ELSE user_scrolled
  /\ Continue
  /\ UNCHANGED <<env, disk, log_queue, threads, focus_index, is_running,
                 input_values, log_lines, req>>

\* C. Up, Down, Tab, and Enter on an input field: focus moves
KeyNavigate ==
  /\ ui.pc = "input"
  /\ ~RunningGate
  /\ \E c \in {"KEY_UP", "KEY_DOWN", "KEY_ENTER"} :
       /\ c = "KEY_ENTER" => focus_index < NUM_INPUTS
       /\ focus_index' = IF c = "KEY_UP" THEN Max(0, focus_index - 1)
                         ELSE Min(NUM_INPUTS, focus_index + 1)
  /\ Continue
  /\ UNCHANGED <<env, disk, log_queue, threads, is_running, input_values,
                 log_lines, log_scroll_offset, user_scrolled, req>>

\* C. a printable character or Backspace with the focus on an input field
KeyEdit ==
  /\ ui.pc = "input"
  /\ ~RunningGate
  /\ focus_index < NUM_INPUTS
  /\ req.edits < MaxEdits
  /\ req' = [req EXCEPT !.edits = @ + 1]
  /\ LET key_to_edit == INPUT_KEYS[focus_index + 1]
         current_value == input_values[key_to_edit]
     IN \/ \E c \in TypeChars :
             /\ Len(current_value) < MaxInput
             /\ input_values' = [input_values EXCEPT ![key_to_edit] = Append(current_value, c)]
        \/ input_values' = [input_values EXCEPT
                              ![key_to_edit] = SubSeq(current_value, 1, Len(current_value) - 1)]
  /\ Continue
  /\ UNCHANGED <<env, disk, log_queue, threads, focus_index, is_running,
                 log_lines, log_scroll_offset, user_scrolled>>

\* 4. start the worker thread
StartWorker(rmf_root, confirmed, lines) ==
  /\ is_running' = TRUE
  /\ log_lines' = Append(lines, StatusLine("Process", "Execution", "Starting worker thread..."))
  /\ threads' = Append(threads,
                       NewThread(rmf_root, Strip(input_values.source_dir),
                                 Strip(input_values.patch_dir),
                                 Strip(input_values.target_dir), confirmed))

\* what the last Enter on START came to, the disk it found, and how many
\* START and editing keys have been pressed
Request(state) ==
  [state |-> state, disk0 |-> disk, starts |-> req.starts + 1, edits |-> req.edits]

\* if not rmf or not os.path.exists(rmf) or not src or not os.path.exists(src)
only_emptiness_checked(rmf, src) == rmf = <<>> \/ src = <<>>
validation_failed(rmf, src) ==
  rmf = <<>> \/ ~PathExists(rmf) \/ src = <<>> \/ ~PathExists(src)

\* C. Enter on the START button
KeyStart ==
  /\ ui.pc = "input"
  /\ ~RunningGate
  /\ focus_index = NUM_INPUTS
  /\ req.starts < MaxStarts
  /\ LET rmf == Strip(input_values.rmf_path)
         src == Strip(input_values.source_dir)
         parsed == parse_rmf_for_dialog(rmf)
         lines == <<StatusLine("RMF", "Parsing", "Checking for VALUES.TXT...")>>
     IN /\ log_scroll_offset' = 0
        /\ user_scrolled' = FALSE
        /\ IF validation_failed(rmf, src)
           THEN /\ log_lines' = <<format_log(LogItem("ERROR", "Validation", "",
                                     "RMF/Source path missing or invalid."))>>
                /\ Continue
                /\ req' = Request("invalid")
                /\ UNCHANGED <<log_queue, threads, is_running>>
           ELSE IF parsed.root = NoRoot
           THEN /\ log_lines' = lines
                /\ log_queue' = log_queue \o parsed.items
                /\ Continue
                /\ req' = Request("parse_failed")
                /\ UNCHANGED <<threads, is_running>>
           ELSE IF Truthy(parsed.values_txt_content)
           THEN /\ log_lines' = Append(lines, StatusLine("Dialog", "VALUES.TXT",
                                                        "Found. Awaiting confirmation."))
                /\ ui' = [pc |-> "dialog", focus |-> 0, rmf_root |-> parsed.root]
                /\ req' = Request("dialog")
                /\ UNCHANGED <<log_queue, threads, is_running>>
           ELSE /\ StartWorker(parsed.root, FALSE, lines)
                /\ Continue
                /\ req' = Request("nodialog")
                /\ UNCHANGED log_queue
  /\ UNCHANGED <<env, disk, focus_index, input_values>>

\* show_modal_dialog: Left / Right move the focus between Yes and No
DialogMove ==
  /\ ui.pc = "dialog"
  /\ \E c \in {"KEY_LEFT", "KEY_RIGHT"} :
       ui' = [ui EXCEPT !.focus = IF c = "KEY_LEFT" THEN Max(0, @ - 1)
                                   ELSE Min(1, @ + 1)]
  /\ UNCHANGED <<env, disk, log_queue, threads, focus_index, is_running,
                 input_values, log_lines, log_scroll_offset, user_scrolled, req>>

\* what show_modal_dialog returns for a key that ends it: y, n, Enter, q
modal_result(c, focus) ==
  CASE c = "y" -> "True"
    [] c = "n" -> "False"
    [] c = "KEY_ENTER" -> IF focus = 0 THEN "True" ELSE "False"
    [] c = "q" -> "None"

\* proceed = True, unless modal_result is False
AlwaysProceed(result) == TRUE
proceed(result) == result # "False"

\* the dialog returns and the Enter handler goes on
DialogAnswer ==
  /\ ui.pc = "dialog"
  /\ \E c \in {"y", "n", "KEY_ENTER", "q"} :
       LET result == modal_result(c, ui.focus)
       IN IF result = "None"
          THEN /\ ui' = [Looping EXCEPT !.pc = "exit"]
               /\ req' = [req EXCEPT !.state = "quit"]
               /\ UNCHANGED <<threads, is_running, log_lines>>
          ELSE IF proceed(result)
          THEN /\ StartWorker(ui.rmf_root, result = "True", log_lines)
               /\ Continue
               /\ req' = [req EXCEPT !.state = IF result = "True" THEN "accepted"
                                               ELSE "declined"]
          ELSE /\ log_lines' = Append(log_lines,
                                      StatusLine("Process", "Aborted", "Cancelled by user."))
               /\ Continue
               /\ req' = [req EXCEPT !.state = "declined"]
               /\ UNCHANGED <<threads, is_running>>
  /\ UNCHANGED <<env, disk, log_queue, focus_index, input_values,
                 log_scroll_offset, user_scrolled>>

\* The handler of last resort (except Exception, after the loop body) ends
\* the loop; no statement of the loop body as modelled here raises into it.
MainNext ==
  \/ ProcessLogQueue \/ QueueEmpty
  \/ KeyIgnored \/ KeyQuit \/ KeyScroll \/ KeyNavigate \/ KeyEdit \/ KeyStart
  \/ DialogMove \/ DialogAnswer

(* ------------------------------------------------------------------ *)
(* The program                                                         *)
(* ------------------------------------------------------------------ *)
\* a manifest whose VALUES.TXT has text, one whose VALUES.TXT has only
\* white space, and two the parser rejects
ValuesRmf ==
  Rmf(<<[name |-> "Values.txt", copypath |-> "", fcontent |-> <<"a", ":", "b">>]>>, <<>>)
BlankValuesRmf ==
  Rmf(<<[name |-> "Values.txt", copypath |-> "", fcontent |-> <<" ">>]>>, <<>>)
SkipOverlay ==
  [efi |-> FALSE, listing |-> <<[name |-> "X.CRI", text |-> {"ARM", "OS"}, imz |-> TRUE]>>]

Init ==
  /\ env \in [rmf : {ValuesRmf, BlankValuesRmf, MalformedRmf, NoRecoveryRmf},
              overlay : {SkipOverlay}]
  /\ disk = [p \in {} |-> NoTree]
  /\ log_queue = <<>>
  /\ threads = <<>>
  /\ focus_index = 0
  /\ is_running = FALSE
  /\ input_values = INPUT_FIELDS
  /\ log_lines = <<>>
  /\ log_scroll_offset = 0
  /\ user_scrolled = FALSE
  /\ ui = [Looping EXCEPT !.pc = "drain"]
  /\ req = [state |-> "none", disk0 |-> disk, starts |-> 0, edits |-> 0]

Next == MainNext \/ WorkerNext

Spec == Init /\ [][Next]_vars

\* The loop body always runs on: the drain loop takes what is there and
\* ends when the queue is empty, and getch returns after the 50 ms of
\* stdscr.timeout(50) when no key was pressed.  The worker is a thread
\* of its own that is scheduled, and the tools it calls return.
SpecLive ==
  /\ Spec
  /\ WF_vars(ProcessLogQueue)
  /\ WF_vars(QueueEmpty)
  /\ WF_vars(KeyIgnored)
  /\ WF_vars(WorkerNext)

(* ------------------------------------------------------------------ *)
(* One pipeline run                                                    *)
(* ------------------------------------------------------------------ *)
\* a manifest that unpacks a.bin into the target root and copies it
UnpackRmf ==
  Rmf(<<>>, <<[source |-> "a.bin", copy |-> "0", copypath |-> "", key |-> "k",
               name |-> ""]>>)
\* an overlay with an EFI directory and one adoptable pair
PairOverlay ==
  [efi |-> TRUE, listing |-> <<[name |-> "X.CRI", text |-> {}, imz |-> TRUE]>>]

\* The runs of the worker that are explored: every manifest without an
\* overlay, every overlay after a manifest that unpacks the archive, and
\* the unusable target and patch paths.
PipeRuns ==
  [rmf : Manifests, overlay : {NoOverlay}, source_dir : {DEFAULT_DL},
   patch_dir : {<<>>}, target_dir : {DEFAULT_TARGET}]
  \cup [rmf : {UnpackRmf}, overlay : Overlays, source_dir : {DEFAULT_DL},
        patch_dir : {DEFAULT_PATCH}, target_dir : {DEFAULT_TARGET}]
  \cup [rmf : {UnpackRmf}, overlay : {PairOverlay}, source_dir : {DEFAULT_DL, RmfPath},
        patch_dir : {<<>>, RmfPath, <<"x">>}, target_dir : {<<>>, RmfPath, DEFAULT_TARGET}]

\* the state in which main() has just started the worker thread
InitPipe ==
  \E run \in PipeRuns :
    /\ env = [rmf |-> run.rmf, overlay |-> run.overlay]
    /\ disk = [p \in {} |-> NoTree]
    /\ log_queue = <<>>
    /\ threads = <<NewThread(run.rmf, run.source_dir, run.patch_dir, run.target_dir,
                             Truthy(ValuesTxtContent(run.rmf.manualfiles, 1)))>>
    /\ focus_index = NUM_INPUTS
    /\ is_running = TRUE
    /\ input_values = [INPUT_FIELDS EXCEPT !.rmf_path = RmfPath,
                         !.source_dir = run.source_dir, !.patch_dir = run.patch_dir,
                         !.target_dir = run.target_dir]
    /\ log_lines =
         <<StatusLine("RMF", "Parsing", "Checking for VALUES.TXT...")>>
         \o (IF threads[1].confirmed
             THEN <<StatusLine("Dialog", "VALUES.TXT", "Found. Awaiting confirmation.")>>
             ELSE <<>>)
         \o <<StatusLine("Process", "Execution", "Starting worker thread...")>>
    /\ log_scroll_offset = 0
    /\ user_scrolled = FALSE
    /\ ui = [Looping EXCEPT !.pc = "drain"]
    /\ req = [state |-> IF threads[1].confirmed THEN "accepted" ELSE "nodialog",
              disk0 |-> disk, starts |-> 1, edits |-> 0]

NextPipe == WorkerNext

SpecPipe == InitPipe /\ [][NextPipe]_vars

(* ------------------------------------------------------------------ *)
(* Properties of one worker run                                        *)
(* ------------------------------------------------------------------ *)
Threads == {threads[k] : k \in 1..Len(threads)}
Events(th) == 1..Len(th.run_log)
EventsBy(th, by) == {i \in Events(th) : th.run_log[i].by = by}
EventsOf(th, actions) == {i \in Events(th) : th.run_log[i].ev.action \in actions}
Completed(th) ==
  {i \in Events(th) : th.run_log[i].ev.result = "Recovery Creation Completed!"}

\* C1: a worker run puts PROCESS_DONE on the queue exactly once and as the
\* last record it puts there, whether the run completes, aborts with FATAL
\* or post-processing returns early: never two tokens, never a record after
\* the token, and a run that has ended has its token.
DoneOnceAndLast ==
  \A th \in Threads :
    LET dones == EventsOf(th, {ACTION_DONE_TOKEN})
    IN /\ Cardinality(dones) <= 1
       /\ \A i \in dones : i = Len(th.run_log)
       /\ th.pc = "exit" => dones = {Len(th.run_log)} /\ Len(th.run_log) > 0

\* C1 happens: a run ended through the early return of post-processing
DoneAfterEarlyReturn ==
  \E th \in Threads :
    /\ th.pc = "exit"
    /\ \E i \in Events(th) : th.run_log[i].ev.result = "Tool missing in script dir"
    /\ th.run_log[Len(th.run_log)].ev.action = ACTION_DONE_TOKEN

\* C5 as stated: the only FATAL record of a run comes from the creation of
\* the target root; a failing step of one create or transfer action never
\* produces FATAL.
FatalOnlyFromRoot ==
  \A th \in Threads :
    \A i \in EventsOf(th, {"FATAL"}) : th.run_log[i].by.phase = "init"

\* the nodes of a manifest in document order, manualfiles before files
DocumentOrder(rmf_root) ==
  [i \in 1..Len(rmf_root.manualfiles) |-> Origin("create", i)]
    \o [i \in 1..Len(rmf_root.files) |-> Origin("file", i)]

PhaseRank(phase) ==
  CASE phase = "init" -> 0 [] phase = "create" -> 1 [] phase = "file" -> 2
    [] phase = "post" -> 3 [] phase = "status" -> 4 [] phase = "done" -> 5

Before(a, b) ==
  \/ PhaseRank(a.phase) < PhaseRank(b.phase)
  \/ a.phase = b.phase /\ a.pos < b.pos

\* C6 as stated: INIT is the first record of every run, and every transfer
\* node the run has gone through has exactly one record.
InitFirstAndOneEventPerTransfer ==
  \A th \in Threads :
    /\ th.run_log # <<>> => th.run_log[1].ev.action = "INIT"
    /\ \A j \in 1..Len(th.visited) :
         th.visited[j].phase = "file" =>
           Cardinality(EventsBy(th, th.visited[j])) = 1

\* C6 amended: INIT is the first record exactly when the target root was
\* created (otherwise the run logs FATAL and the token only); the nodes are
\* gone through in document order, manualfiles before files, none skipped
\* and none twice; every node yields at most one record, only after it was
\* reached; and the records appear in the order init, create nodes by
\* position, transfer nodes by position, post-processing, completion, token.
ManifestOrder ==
  \A th \in Threads :
    LET order == DocumentOrder(th.rmf_root)
        log == th.run_log
    IN /\ Len(th.visited) <= Len(order)
       /\ th.visited = SubSeq(order, 1, Len(th.visited))
       /\ log # <<>> =>
            IF RootOk(th.target_dir) THEN log[1].ev.action = "INIT"
            ELSE /\ log[1].ev.action = "FATAL"
                 /\ Len(log) <= 2
                 /\ Len(log) = 2 => log[2].ev.action = ACTION_DONE_TOKEN
       /\ \A i \in Events(th) :
            log[i].by.phase \in {"create", "file"} =>
              /\ \E j \in 1..Len(th.visited) : th.visited[j] = log[i].by
              /\ Cardinality(EventsBy(th, log[i].by)) = 1
       /\ \A i, j \in Events(th) :
            i < j => \/ Before(log[i].by, log[j].by)
                     \/ log[i].by = log[j].by /\ log[i].by.phase = "post"

\* C6 happens: a run that wrote two records for its nodes and went on
\* through post-processing to its end
OrderedRunEnded ==
  \E th \in Threads :
    /\ th.pc = "exit"
    /\ Len(th.visited) = 2
    /\ \A j \in 1..2 : EventsBy(th, th.visited[j]) # {}
    /\ EventsBy(th, Origin("post", 5)) # {}

\* C7 as stated: a run that created the target root ends with the
\* completion STATUS, whatever failed on the way.
CompletedWheneverRootCreated ==
  \A th \in Threads :
    th.pc = "exit" /\ RootOk(th.target_dir) => Completed(th) # {}

\* C8 as stated: when post_process_files has returned, the last record on
\* the queue is its STATUS 'Post-processing complete.'
PostProcessingEndsWithStatus ==
  \A th \in Threads :
    th.pc = "status" =>
      th.run_log[Len(th.run_log)].ev.result = "Post-processing complete."

\* C9 as stated: every failure a handler of the pipeline caught has exactly
\* one record describing it.
OneEventPerCaughtFailure ==
  \A th \in Threads :
    \A i \in 1..Len(th.caught) : th.caught[i].events = 1

\* C10 as stated: a transfer node the run has gone through, with a source
\* name whose file is not under the source root, has exactly one MISSING
\* record and no COPY or UNPACK record.
MissingSourceReported ==
  \A th \in Threads :
    \A j \in 1..Len(th.visited) :
      LET by == th.visited[j]
      IN by.phase = "file"
           /\ th.rmf_root.files[by.pos].source # ""
           /\ ~SourceExists(th.source_dir, th.rmf_root.files[by.pos].source)
         => /\ Cardinality(EventsBy(th, by) \cap EventsOf(th, {"MISSING"})) = 1
            /\ EventsBy(th, by) \cap EventsOf(th, {"COPY", "UNPACK"}) = {}

(* ------------------------------------------------------------------ *)
(* Properties of the interactive layer and its worker                  *)
(* ------------------------------------------------------------------ *)
\* a worker is in flight from Thread.start() until it has put its token
InFlight == {k \in 1..Len(threads) : threads[k].pc # "exit"}
TokensQueued ==
  {i \in 1..Len(log_queue) : log_queue[i].action = ACTION_DONE_TOKEN}

OneWorkerState ==
  /\ Cardinality(InFlight) <= 1
  /\ Cardinality(TokensQueued) <= 1
  /\ is_running <=> (InFlight # {} \/ TokensQueued # {})

OneWorkerStep ==
  /\ Len(threads') > Len(threads) => ~is_running /\ is_running' /\ InFlight = {}
  /\ is_running => Len(threads') <= Len(threads)
  /\ is_running /\ ~is_running' =>
       /\ log_queue # <<>>
       /\ Head(log_queue).action = ACTION_DONE_TOKEN
       /\ log_queue' = Tail(log_queue)
       /\ InFlight = {}

\* C2: at most one worker is in flight at any time; is_running is true
\* exactly while a worker is in flight or its token waits on the queue; a
\* worker is started only by a step that finds is_running false and sets
\* it; is_running falls only in the step that takes the token of the
\* finished worker off the queue; and no step taken while is_running is
\* true (Enter on START included) starts a worker.
OneWorkerInFlight == []OneWorkerState /\ [][OneWorkerStep]_vars

\* C2 happens: a second build was started after the first one's token was
\* drained, and its worker is in flight
SecondWorkerRunning ==
  /\ req.starts = 2
  /\ InFlight # {}
  /\ is_running
  /\ ui.pc = "input"
  /\ focus_index = NUM_INPUTS

\* C3: after the operator answered No in the confirmation dialog, or left
\* it with q, no worker is in flight and the disk, the target directory
\* included, is what it was when START was pressed.
DeclinedStartsNothing ==
  req.state \in {"declined", "quit"} => InFlight = {} /\ ~is_running /\ disk = req.disk0

\* C3 happens: the dialog was shown and answered No
DialogDeclined ==
  /\ req.state = "declined"
  /\ log_lines # <<>>
  /\ log_lines[Len(log_lines)][4] = "Cancelled by user."

\* the executor's condition for writing a manualfiles node, for VALUES.TXT
HasValuesTxtCreate(rmf_root) ==
  \E i \in 1..Len(rmf_root.manualfiles) :
    /\ Upper(rmf_root.manualfiles[i].name) = "VALUES.TXT"
    /\ rmf_root.manualfiles[i].fcontent # <<>>

\* C4 as stated: a worker whose manifest has a create-action named
\* VALUES.TXT was started after the operator accepted the dialog.
ValuesTxtConfirmedBeforeStart ==
  \A th \in Threads : HasValuesTxtCreate(th.rmf_root) => th.confirmed

(* ------------------------------------------------------------------ *)
(* Transfer actions                                                    *)
(* ------------------------------------------------------------------ *)
\* the transfer nodes a run has gone through whose source file exists
TransfersWithSource(th) ==
  {j \in 1..Len(th.visited) :
     /\ th.visited[j].phase = "file"
     /\ th.rmf_root.files[th.visited[j].pos].source # ""
     /\ SourceExists(th.source_dir, th.rmf_root.files[th.visited[j].pos].source)}

\* C11 as stated: a transfer node the run has gone through, with a source
\* name whose file exists, has exactly one COPY or UNPACK record, whatever
\* its copy attribute is.
CopyOrUnpackApplied ==
  \A th \in Threads :
    \A j \in TransfersWithSource(th) :
      Cardinality(EventsBy(th, th.visited[j]) \cap EventsOf(th, {"COPY", "UNPACK"})) = 1

\* C12: when 7z cannot be found for an unpack node, the node has exactly
\* one record, UNPACK with 'Not Found in Path', and none with FATAL; the
\* run does not stop there: the worker goes on to the next node, a FATAL
\* record can only come from a later node, and a run that ends without
\* FATAL went through every node and through post-processing to the
\* completion STATUS.
ToolNotFoundReported ==
  \A th \in Threads :
    \A i \in Events(th) :
      th.run_log[i].ev.result = "Not Found in Path" =>
        LET by == th.run_log[i].by
        IN /\ by.phase = "file"
           /\ th.rmf_root.files[by.pos].copy = "0"
           /\ th.run_log[i].ev.action = "UNPACK"
           /\ EventsBy(th, by) = {i}
           /\ i = Len(th.run_log) => th.pc \notin {"finally", "exit"}
           /\ \A f \in EventsOf(th, {"FATAL"}) : Before(by, th.run_log[f].by)
           /\ th.pc = "exit" /\ EventsOf(th, {"FATAL"}) = {} =>
                /\ th.visited = DocumentOrder(th.rmf_root)
                /\ Completed(th) # {}

\* C12 happens: 7z was not found for the first of two transfer nodes, the
\* second one was copied, and the run ended with the completion STATUS
NotFoundThenCopied ==
  \E th \in Threads :
    /\ th.pc = "exit"
    /\ \E i \in EventsBy(th, Origin("file", 1)) :
         th.run_log[i].ev.result = "Not Found in Path"
    /\ \E i \in EventsBy(th, Origin("file", 2)) : th.run_log[i].ev.action = "COPY"
    /\ Completed(th) # {}

(* ------------------------------------------------------------------ *)
(* START: validation and the manifest pre-parse                        *)
(* ------------------------------------------------------------------ *)
\* a step of the START handler
StartPressed == ui.pc = "input" /\ req'.starts = req.starts + 1
Exist == {RmfPath, DEFAULT_DL, DEFAULT_PATCH} \cup DOMAIN disk
\* the paths a manifest field can name
RmfPaths == {<<>>, <<"x">>, RmfPath, DEFAULT_DL}

\* the manifest at a path is missing, malformed or without a recovery node
Unusable(p) == p \notin Exist \/ p # RmfPath \/ env.rmf.xml # "ok"

ParseFailureLogged ==
  \A p \in RmfPaths :
    Unusable(p) =>
      LET parsed == parse_rmf_for_dialog(p)
      IN /\ parsed.root = NoRoot
         /\ parsed.values_txt_content = None
         /\ Len(parsed.items) = 1
         /\ parsed.items[1].action = "ERROR"

ParseFailureStep ==
  StartPressed /\ Strip(input_values.rmf_path) \in Exist
    /\ Strip(input_values.source_dir) \in Exist
    /\ Unusable(Strip(input_values.rmf_path))
  => /\ Len(log_queue') = Len(log_queue) + 1
     /\ SubSeq(log_queue', 1, Len(log_queue)) = log_queue
     /\ log_queue'[Len(log_queue')].action = "ERROR"
     /\ threads' = threads
     /\ disk' = disk
     /\ ~is_running'
     /\ ui'.pc = "drain"
     /\ req'.state = "parse_failed"

\* C13: for a manifest path that does not exist, a document that does not
\* parse and a document without a recovery node, parse_rmf_for_dialog logs
\* exactly one ERROR record and returns no root; the START step that gets
\* no root puts just that record on the queue, starts no worker, shows no
\* dialog and changes nothing on disk, and nothing is started or written
\* for that request afterwards.
ParseFailureStartsNothing ==
  /\ []ParseFailureLogged
  /\ [](req.state = "parse_failed" => InFlight = {} /\ ~is_running /\ disk = req.disk0)
  /\ [][ParseFailureStep]_vars

\* C13 happens: the manifest had no recovery node and its ERROR line is in
\* the log
ParseFailureShown ==
  /\ req.state = "parse_failed"
  /\ threads = <<>>
  /\ \E i \in 1..Len(log_lines) :
       log_lines[i][1] = "ERROR" /\ log_lines[i][4] = "Node 'recovery' not found in RMF."

ValidationStep ==
  StartPressed
    /\ \/ Strip(input_values.rmf_path) = <<>>
       \/ Strip(input_values.rmf_path) \notin Exist
       \/ Strip(input_values.source_dir) = <<>>
       \/ Strip(input_values.source_dir) \notin Exist
  => /\ log_lines' = <<format_log(LogItem("ERROR", "Validation", "",
                                         "RMF/Source path missing or invalid."))>>
     /\ log_queue' = log_queue
     /\ threads' = threads
     /\ disk' = disk
     /\ ~is_running /\ ~is_running'
     /\ ui'.pc = "drain"
     /\ req'.state = "invalid"

Actionable(rmf_root, by) ==
  IF by.phase = "create"
  THEN /\ rmf_root.manualfiles[by.pos].name # ""
       /\ rmf_root.manualfiles[by.pos].fcontent # <<>>
  ELSE rmf_root.files[by.pos].source # ""

\* C15 as stated: of the nodes a run has gone through, those lacking name,
\* content or source have no record and every other one has exactly one;
\* and a run that created its target root ends with as many CREATE records
\* as there are create nodes with name and content.
OneEventPerActionableNode ==
  \A th \in Threads :
    /\ \A j \in 1..Len(th.visited) :
         Cardinality(EventsBy(th, th.visited[j])) =
           IF Actionable(th.rmf_root, th.visited[j]) THEN 1 ELSE 0
    /\ th.pc = "exit" /\ RootOk(th.target_dir) =>
         Cardinality(EventsOf(th, {"CREATE"})) =
           Cardinality({i \in 1..Len(th.rmf_root.manualfiles) :
                          Actionable(th.rmf_root, Origin("create", i))})

(* ------------------------------------------------------------------ *)
(* The progress queue                                                  *)
(* ------------------------------------------------------------------ *)
FinishedLine == StatusLine("Process", "Execution", "Finished.")
Rendered(item) ==
  IF item.action = ACTION_DONE_TOKEN THEN FinishedLine ELSE format_log(item)

\* a record leaves the queue only from its head and as the new last log
\* line; every other step leaves the queued records in place and in order
QueueStep ==
  IF Len(log_queue') < Len(log_queue)
  THEN /\ log_queue' = Tail(log_queue)
       /\ log_lines' = Append(log_lines, Rendered(Head(log_queue)))
  ELSE SubSeq(log_queue', 1, Len(log_queue)) = log_queue

FinishedIsLast ==
  \A i \in 1..Len(log_lines) : log_lines[i] = FinishedLine => i = Len(log_lines)

\* C16: the main loop takes each queued record at most once, from the head
\* of the queue, and appends it to the log as it takes it, so the log has
\* the records in the order they were put; the token is rendered as the
\* last line of its run; and while the loop keeps running every queued
\* record is taken: a queue that holds records is emptied.
FifoDrain ==
  /\ [][QueueStep]_vars
  /\ []FinishedIsLast
  /\ (log_queue # <<>>) ~> (log_queue = <<>> \/ ui.pc = "exit")

\* C16 happens: the records of a run were drained, the token last
RunDrained ==
  /\ log_queue = <<>>
  /\ ~is_running
  /\ Len(log_lines) >= 5
  /\ log_lines[Len(log_lines)] = FinishedLine
  /\ log_lines[Len(log_lines) - 1][4] = "Recovery Creation Completed!"

\* C17: the consumer never waits for the queue.  In the drain loop a step
\* is always possible, taking a record when there is one and going on to
\* getch when there is none; at getch the time-out step is always
\* possible; so the drain loop ends, getch returns, and from getch the
\* loop comes back to the drain (or opens the dialog, or was left with q)
\* whether or not records arrive.
ConsumerNeverBlocks ==
  /\ [](ui.pc = "drain" => ENABLED (ProcessLogQueue \/ QueueEmpty))
  /\ [](ui.pc = "input" => ENABLED KeyIgnored)
  /\ (ui.pc = "drain") ~> (ui.pc = "input")
  /\ (ui.pc = "input") ~> (ui.pc = "drain" \/ ui.pc = "dialog" \/ ui.pc = "exit")

\* C17 happens: the drain starts with several records waiting
DrainFindsMany == ui.pc = "drain" /\ Len(log_queue) >= 2 /\ is_running

\* C18: the worker does not depend on the main loop.  A worker in flight
\* can always take its next step, in every state of the loop and after
\* the loop was left with q; leaving the loop removes or changes no
\* thread; and, its steps being taken, a worker in flight comes to the
\* end of its run, which it leaves having put the token.
ProducerIndependent ==
  /\ [](InFlight # {} => ENABLED WorkerNext)
  /\ [][ui.pc # "exit" /\ ui'.pc = "exit" => threads' = threads]_vars
  /\ [](\A th \in Threads :
         th.pc = "exit" => th.run_log[Len(th.run_log)].ev.action = ACTION_DONE_TOKEN)
  /\ (InFlight # {}) ~> (InFlight = {})

\* C18 happens: the loop was left with q before the worker took a step
QuitBeforeWorkerRan ==
  /\ ui.pc = "exit"
  /\ \E th \in Threads : th.pc = "init" /\ th.run_log = <<>>

(* ------------------------------------------------------------------ *)
(* Post-processing                                                     *)
(* ------------------------------------------------------------------ *)
\* the error records of steps 1 to 3
StepErrors(th, filename) ==
  {i \in Events(th) : /\ th.run_log[i].by.phase = "post"
                      /\ th.run_log[i].ev.filename = filename
                      /\ th.run_log[i].ev.result = "Error: e"}
\* the failures the handler of a step caught
StepFailures(th, pos) ==
  {i \in 1..Len(th.caught) : th.caught[i].at = Origin("post", pos) /\ th.caught[i].events > 0}

BestEffortState ==
  \A th \in Threads :
    /\ Cardinality(StepErrors(th, "Folder MFG")) = Cardinality(StepFailures(th, 1))
    /\ Cardinality(StepErrors(th, "EFI Folder")) = Cardinality(StepFailures(th, 2))
    /\ Cardinality(StepErrors(th, "CRI/IMZ")) = Cardinality(StepFailures(th, 3))
    /\ \A pos \in 1..3 : Cardinality(StepFailures(th, pos)) <= 1
    /\ StepErrors(th, "CRI/IMZ") # {} /\ th.pc \in {"status", "finally", "exit"} =>
         \E i \in Events(th) : th.run_log[i].ev.result = "Post-processing complete."

BestEffortStep ==
  \A k \in 1..Len(threads) :
    Len(threads') = Len(threads) /\ threads'[k] # threads[k] =>
      LET th == threads[k]
          next == threads'[k]
          failed(filename) == StepErrors(next, filename) # StepErrors(th, filename)
      IN /\ failed("Folder MFG") \/ failed("EFI Folder") \/ failed("CRI/IMZ") =>
              Len(next.run_log) = Len(th.run_log) + 1
         /\ th.pc = "post_mfg" =>
              next.pc = IF PatchUsable(th.patch_dir) THEN "post_efi" ELSE "post_aod"
         /\ th.pc = "post_efi" => next.pc = "post_cri"
         /\ th.pc \in {"post_cri", "post_cri_scan"} =>
              /\ next.pc \in {"post_cri_scan", "post_aod"}
              /\ failed("CRI/IMZ") => next.pc = "post_aod" /\ next.copied_cri_name = ""
         /\ th.pc = "post_aod" /\ th.copied_cri_name = "" => next.pc = "post_status"
         /\ th.pc = "post_status" => next.pc = "status"

\* C19: steps 1 to 3 of post-processing are best effort.  A failure of
\* the MFG rename, of the EFI overwrite or of the CRI/IMZ step is logged
\* with exactly one error record; after the MFG rename, failed or not, the
\* EFI overwrite is next (when there is an overlay directory); after the
\* EFI overwrite, failed or not, the CRI/IMZ step is next; and after a
\* failed CRI/IMZ step post-processing goes on to its end, where it logs
\* its closing STATUS.
BestEffortSteps == []BestEffortState /\ [][BestEffortStep]_vars

\* C19 happens: all three steps failed in one run and post-processing
\* came to its end
ThreeStepsFailed ==
  \E th \in Threads :
    /\ StepErrors(th, "Folder MFG") # {}
    /\ StepErrors(th, "EFI Folder") # {}
    /\ StepErrors(th, "CRI/IMZ") # {}
    /\ th.run_log[Len(th.run_log)].ev.result = "Post-processing complete."

\* the EFI directory of the target of thread k, before and after a step
TargetEfi(k) == Subtree(Tree(threads[k]), EFI)
TargetEfiAfter(k) ==
  LET target_dir == threads[k].target_dir
  IN Subtree(IF target_dir \in DOMAIN disk' THEN disk'[target_dir] ELSE NoTree, EFI)
\* the records thread k logged in a step
Logged(k) ==
  SubSeq(threads'[k].run_log, Len(threads[k].run_log) + 1, Len(threads'[k].run_log))
\* a step of thread k from pc
StepFrom(k, pc) ==
  /\ Len(threads') = Len(threads)
  /\ threads'[k] # threads[k]
  /\ threads[k].pc = pc
\* step 2 is entered only with an overlay directory; without one step 1
\* goes on to the AOD step
OverlaySkipped(k) == StepFrom(k, "post_mfg") /\ ~PatchUsable(threads[k].patch_dir)

EfiSupersededStep ==
  \A k \in 1..Len(threads) :
    /\ StepFrom(k, "post_efi") =>
         IF OverlayAt(threads[k].patch_dir).efi
         THEN TargetEfiAfter(k) = OverlayEfi
         ELSE TargetEfiAfter(k) = TargetEfi(k)
    /\ OverlaySkipped(k) => TargetEfiAfter(k) = TargetEfi(k)

EfiOverwriteStep ==
  \A k \in 1..Len(threads) :
    /\ StepFrom(k, "post_efi") =>
         IF OverlayAt(threads[k].patch_dir).efi
         THEN \/ /\ Len(Logged(k)) = 1
                 /\ Logged(k)[1].ev.result = "Overwritten from Patch"
                 /\ TargetEfiAfter(k) = OverlayEfi
              \/ /\ Len(Logged(k)) = 1
                 /\ Logged(k)[1].ev.filename = "EFI Folder"
                 /\ Logged(k)[1].ev.result = "Error: e"
                 /\ TargetEfiAfter(k) \in {TargetEfi(k), Subtree(NoTree, EFI)}
         ELSE Logged(k) = <<>> /\ TargetEfiAfter(k) = TargetEfi(k)
    /\ OverlaySkipped(k) => TargetEfiAfter(k) = TargetEfi(k)

PatchFiles(th) == OverlayAt(th.patch_dir).listing
Adoptions(th) ==
  {i \in Events(th) : th.run_log[i].ev.result = "Copied from Patch"}
Skips(th) ==
  {i \in Events(th) : th.run_log[i].ev.action = "SKIP"}
Skipped(th, filename) ==
  \E i \in Skips(th) : th.run_log[i].ev.filename = filename
InRecovery(th, filename) == Exists(Tree(th), target_rec_dir \o <<filename>>)

OnePairState ==
  \A th \in Threads :
    /\ Cardinality(Adoptions(th)) <= 1
    /\ (Adoptions(th) # {}) = (th.copied_cri_name # "")
    /\ \A i \in Adoptions(th) :
         \* nothing of step 3 is logged after the adoption
         /\ \A j \in Events(th) : j > i => th.run_log[j].by # Origin("post", 3)
         /\ th.pc \notin {"post_cri", "post_cri_scan"}
         \* the loop stopped at the adopted entry, the first that was not
         \* skipped and has its payload
         /\ th.idx - 1 \in 1..Len(PatchFiles(th))
         /\ PatchFiles(th)[th.idx - 1].name = th.copied_cri_name
         /\ PatchFiles(th)[th.idx - 1].imz
         /\ ~Skipped(th, th.copied_cri_name)
         /\ \A j \in 1..(th.idx - 2) :
              LET entry == PatchFiles(th)[j]
              IN ~IsCri(entry.name) \/ ~entry.imz \/ Skipped(th, entry.name)
         /\ \A j \in th.idx..Len(PatchFiles(th)) :
              LET entry == PatchFiles(th)[j]
              IN /\ ~Skipped(th, entry.name)
                 /\ ~InRecovery(th, entry.name)
                 /\ ~InRecovery(th, ImzName(entry.name))
    /\ \A i \in Skips(th) :
         /\ ~InRecovery(th, th.run_log[i].ev.filename)
         /\ ~InRecovery(th, ImzName(th.run_log[i].ev.filename))
         /\ \E j \in 1..Len(PatchFiles(th)) :
              /\ PatchFiles(th)[j].name = th.run_log[i].ev.filename
              /\ looksLikeArm(PatchFiles(th)[j].text)
    /\ Cardinality({j \in 1..Len(PatchFiles(th)) :
                      InRecovery(th, PatchFiles(th)[j].name)}) <= 1

\* a step of the loop over the listing: a .cri file whose text reads as
\* ARM is skipped with one SKIP record and nothing is written, unless the
\* read itself failed
OnePairStep ==
  \A k \in 1..Len(threads) :
    StepFrom(k, "post_cri_scan") /\ threads[k].idx <= Len(PatchFiles(threads[k])) =>
      LET th == threads[k]
          entry == PatchFiles(th)[th.idx]
          read_failed == \E i \in (Len(th.caught) + 1)..Len(threads'[k].caught) :
                           threads'[k].caught[i].events = 0
      IN IsCri(entry.name) /\ looksLikeArm(entry.text) /\ ~read_failed =>
           /\ Len(Logged(k)) = 1
           /\ Logged(k)[1].ev.action = "SKIP"
           /\ Logged(k)[1].ev.filename = entry.name
           /\ disk' = disk
           /\ threads'[k].copied_cri_name = ""
           /\ threads'[k].pc = "post_cri_scan"

\* C21: at most one recipe/payload pair is adopted per run: it is the
\* first .cri entry of the overlay listing that was not skipped and has
\* its payload; after its COPY record nothing more is logged for step 3,
\* the loop is left, and no later entry is skipped or copied.  A .cri
\* file read as ARM gets one SKIP record, and a skipped file and its
\* payload are never in the target's RECOVERY directory.
OnePairAdopted == []OnePairState /\ [][OnePairStep]_vars

\* C21 happens: the first of two adoptable pairs was adopted and the
\* second was left alone
SecondPairLeft ==
  \E th \in Threads :
    /\ th.pc = "exit"
    /\ Len(PatchFiles(th)) = 2
    /\ th.copied_cri_name = PatchFiles(th)[1].name
    /\ IsCri(PatchFiles(th)[2].name) /\ PatchFiles(th)[2].imz
    /\ ~looksLikeArm(PatchFiles(th)[2].text)
    /\ InRecovery(th, PatchFiles(th)[1].name)
    /\ ~InRecovery(th, PatchFiles(th)[2].name)

\* the invocations of the rebuild tool, and the records of step 4
Rebuilds(th) == {i \in 1..Len(th.cmds) : th.cmds[i].exe = "aodbuild"}
RebuildEvents(th) == {i \in Events(th) : th.run_log[i].by = Origin("post", 4)}
IndexData(th) == Tree(th)[aod_dat].data

RebuildOnlyState ==
  \A th \in Threads :
    /\ Rebuilds(th) # {} \/ RebuildEvents(th) # {} \/ Exists(Tree(th), aod_org)
         \/ (Exists(Tree(th), aod_dat) /\ IndexData(th) # Archive[aod_dat].data) =>
           /\ Adoptions(th) # {}
           /\ th.copied_cri_name # ""
           /\ PatchUsable(th.patch_dir)
    /\ ~PatchUsable(th.patch_dir) =>
         /\ Rebuilds(th) = {}
         /\ ~Exists(Tree(th), aod_org)
         /\ ~Exists(Tree(th), aod_stat)
         /\ Exists(Tree(th), aod_dat) => IndexData(th) = Archive[aod_dat].data

RebuildOnlyStep ==
  \A k \in 1..Len(threads) :
    StepFrom(k, "post_aod") =>
      \/ /\ threads[k].copied_cri_name # ""
         /\ Adoptions(threads[k]) # {}
         /\ Exists(Tree(threads[k]), aod_dat)
      \/ /\ disk' = disk
         /\ threads'[k].cmds = threads[k].cmds
         /\ Logged(k) = <<>>

\* C22: the index rebuild is attempted only after a pair was adopted in
\* this run and with RECOVERY/AOD.DAT present: otherwise step 4 renames
\* nothing, writes nothing, invokes nothing and logs nothing.  A run
\* without a usable overlay directory never invokes the rebuild tool and
\* never renames or rewrites AOD.DAT.
RebuildOnlyAfterAdoption == []RebuildOnlyState /\ [][RebuildOnlyStep]_vars

\* C22 happens: a run without an overlay directory unpacked an archive
\* with AOD.DAT and ended with the index as unpacked
IndexLeftWithoutOverlay ==
  \E th \in Threads :
    /\ th.pc = "exit"
    /\ ~PatchUsable(th.patch_dir)
    /\ Exists(Tree(th), aod_dat)
    /\ IndexData(th) = Archive[aod_dat].data
    /\ Rebuilds(th) = {}
    /\ \E i \in Events(th) : th.run_log[i].ev.result = "Post-processing complete."

\* the target tree of thread k after a step
TreeAfter(k) ==
  LET target_dir == threads[k].target_dir
  IN IF target_dir \in DOMAIN disk' THEN disk'[target_dir] ELSE NoTree
LoggedResult(k, result) ==
  \E i \in 1..Len(Logged(k)) : Logged(k)[i].ev.result = result

IndexKeptStep ==
  \A k \in 1..Len(threads) :
    StepFrom(k, "post_aod") /\ LoggedResult(k, "Not generated by aodbuild") =>
      /\ Logged(k)[Len(Logged(k))].ev.action = "ERROR"
      /\ Exists(Tree(threads[k]), aod_dat)
      /\ Exists(TreeAfter(k), aod_dat)
      /\ TreeAfter(k)[aod_dat] = Tree(threads[k])[aod_dat]

\* C23: when aodstat.dat is absent after the rebuild tool ran, step 4
\* logs ERROR "Not generated by aodbuild" and ends with AOD.DAT present
\* and holding what it held before the step.
IndexKeptWhenNotGenerated == [][IndexKeptStep]_vars

SpliceGatedStep ==
  \A k \in 1..Len(threads) :
    StepFrom(k, "post_aod") =>
      /\ LoggedResult(k, "Fail: stderr") =>
           \* AOD.DAT went to AOD.ORG, and nothing took its place
           /\ ~Exists(TreeAfter(k), aod_dat)
           /\ ~LoggedResult(k, "Header updated & Cleaned")
      /\ LoggedResult(k, "Header updated & Cleaned") => LoggedResult(k, "Success")

\* C24: aodstat.dat is renamed to AOD.DAT and the header is spliced only
\* when the rebuild tool exited with code 0: a step that logs the tool's
\* failure leaves no new AOD.DAT and logs no "Header updated & Cleaned".
SpliceOnlyAfterSuccess == [][SpliceGatedStep]_vars

(* ------------------------------------------------------------------ *)
(* The functions of the program, called on their own                   *)
(* ------------------------------------------------------------------ *)
\* Here env holds one call, the function and its arguments, and req its
\* result once it has returned; nothing else moves.
MaxLines == 5
Digit == <<"1", "2", "3", "4", "5", "6", "7", "8", "9">>
\* text files of lo..hi lines: line i is blank or reads tag and i, and
\* the last line may lack its "\n"
TextFiles(tag, blank, lo, hi) ==
  UNION {{[i \in 1..n |-> Line(IF b[i] THEN blank ELSE <<tag, Digit[i]>>, i < n \/ nl)] :
            b \in [1..n -> BOOLEAN], nl \in BOOLEAN} : n \in lo..hi}
Readable(f) == Len(f) = 0 \/ f[Len(f)].nl \/ f[Len(f)].text # <<>>
\* AOD.ORG with its 4 header lines, and the aodstat.dat the tool wrote
BackupFiles == {f \in TextFiles("H", <<" ">>, 4, MaxLines) : Readable(f)}
RebuiltFiles == {f \in TextFiles("N", <<>>, 0, MaxLines) : Readable(f)}

MaxKey == 4
\* the code points of 'a'..'m': one for each value of ord(char) % 13
Letters == 97..109
\* key attributes: absent, empty, one letter, or up to MaxKey of 'a', 'k'
Keys ==
  {None} \cup {Some(<<c>>) : c \in Letters}
  \cup {Some(k) : k \in SeqsUpTo({97, 107}, MaxKey)}

\* a call sequence: the function and the arguments of its calls in turn
SpliceCalls ==
  {[fn |-> "splice", args |-> <<[org |-> org, dat |-> dat]>>] :
     org \in BackupFiles, dat \in RebuiltFiles}
EncryptCalls ==
  {[fn |-> "encrypt_imz_password", args |-> <<k1, k2>>] : k1 \in Keys, k2 \in Keys}
MaxText == 5
\* the text of an <fcontent> node: not empty (l.218)
FcontentTexts == SeqsUpTo({"a", ":", " ", "\t", "\n"}, MaxText) \ {<<>>}
FormatCalls == {[fn |-> "format_values", args |-> <<text>>] : text \in FcontentTexts}

Called == [state |-> "called", results |-> <<>>]
\* the argument of the call that is next
Arg == env.args[Len(req.results) + 1]

InitCalls ==
  /\ \/ env \in SpliceCalls
     \/ env \in EncryptCalls
     \/ env \in FormatCalls
  /\ req = Called
  /\ disk = [p \in {} |-> NoTree]
  /\ log_queue = <<>>
  /\ threads = <<>>
  /\ focus_index = 0
  /\ is_running = FALSE
  /\ input_values = INPUT_FIELDS
  /\ log_lines = <<>>
  /\ log_scroll_offset = 0
  /\ user_scrolled = FALSE
  /\ ui = Looping

Return(result) ==
  /\ Len(req.results) < Len(env.args)
  /\ req' = [state |-> IF Len(req.results) + 1 = Len(env.args)
                       THEN "returned" ELSE "called",
             results |-> Append(req.results, result)]
  /\ UNCHANGED <<env, disk, log_queue, threads, focus_index, is_running,
                 input_values, log_lines, log_scroll_offset, user_scrolled, ui>>

\* l.168-179 with aodstat.dat already renamed to AOD.DAT
CallSplice == env.fn = "splice" /\ Return(Splice(Arg.org, Arg.dat))

\* a transform that counts its calls
encrypted_with_memory(clear_password) ==
  IF ~Truthy(clear_password) THEN <<>>
  ELSE [i \in 1..Len(clear_password.text) |->
          encrypt_imz_password(clear_password.text)[i] + Len(req.results)]
\* `if not clear_password: return ""`, then the transform
encrypted(clear_password) ==
  IF ~Truthy(clear_password) THEN <<>>
  ELSE encrypt_imz_password(clear_password.text)

CallEncrypt == env.fn = "encrypt_imz_password" /\ Return(encrypted(Arg))

\* l.221-239 of parse_rmf_for_dialog
CallFormat == env.fn = "format_values" /\ Return(FormatValues(Arg))

NextCalls == CallSplice \/ CallEncrypt \/ CallFormat

SpecCalls == InitCalls /\ [][NextCalls]_vars

NonBlank(lines) == SelectSeq(lines, LAMBDA line : ~IsBlank(line))
\* C25: for every backup file of at least 4 lines and every rebuilt file,
\* the spliced index starts with the backup's first 4 lines as they are,
\* has no blank line, and after those 4 lines has exactly the non-blank
\* lines of the rebuilt file from its 5th on, in their order.
SpliceKeepsHeaderAndBody ==
  env.fn = "splice" =>
    \A c \in 1..Len(req.results) :
      LET out == req.results[c]
          org == env.args[c].org
          dat == env.args[c].dat
      IN /\ Len(out) >= 4
         /\ SubSeq(out, 1, 4) = SubSeq(org, 1, 4)
         /\ \A i \in 1..Len(out) : ~IsBlank(out[i])
         /\ SubSeq(out, 5, Len(out)) = NonBlank(SubSeq(dat, 5, Len(dat)))

\* the 13 characters of "k`gybs0vampjd", by ord(char) % 13
Alphabet ==
  [r \in 0..12 |->
     CASE r = 0 -> 107 [] r = 1 -> 96 [] r = 2 -> 103 [] r = 3 -> 121
       [] r = 4 -> 98 [] r = 5 -> 115 [] r = 6 -> 48 [] r = 7 -> 118
       [] r = 8 -> 97 [] r = 9 -> 109 [] r = 10 -> 112 [] r = 11 -> 106
       [] r = 12 -> 100]

\* C26: encrypt_imz_password maps the character at position i (from 0) to
\* the code point ord(ALPHABET[ord(char) mod 13]) - (i mod 3) + 2, for
\* every input; the input "a" yields "2".
TransformPointwise ==
  env.fn = "encrypt_imz_password" =>
    \A c \in 1..Len(req.results) :
      Truthy(env.args[c]) =>
        LET clear == env.args[c].text
            out == req.results[c]
        IN /\ Len(out) = Len(clear)
           /\ \A i \in 0..(Len(clear) - 1) :
                out[i + 1] = Alphabet[clear[i + 1] % 13] - (i % 3) + 2
           /\ clear = <<97>> => out = <<50>>

\* C26 happens: a key of 4 equal characters was transformed, so that the
\* offsets 0, 1, 2 and again 0 show
FourCharsTransformed ==
  /\ env.fn = "encrypt_imz_password"
  /\ req.state = "returned"
  /\ env.args[1] = Some(<<97, 97, 97, 97>>)
  /\ req.results[1] = <<50, 49, 48, 50>>

EncryptStep ==
  env.fn = "encrypt_imz_password" =>
    UNCHANGED <<env, disk, log_queue, threads, focus_index, is_running,
                input_values, log_lines, log_scroll_offset, user_scrolled, ui>>
Deterministic ==
  env.fn = "encrypt_imz_password" =>
    \A c, d \in 1..Len(req.results) :
      /\ env.args[c] = env.args[d] => req.results[c] = req.results[d]
      /\ ~Truthy(env.args[c]) => req.results[c] = <<>>

PasswordStep ==
  \A k \in 1..Len(threads) :
    StepFrom(k, "files") /\ Len(threads'[k].cmds) = Len(threads[k].cmds) + 1 =>
      LET cmd == threads'[k].cmds[Len(threads'[k].cmds)]
          by == threads'[k].visited[Len(threads'[k].visited)]
          file_node == threads[k].rmf_root.files[by.pos]
      IN /\ cmd.exe = "7z"
         /\ file_node.copy = "0"
         /\ cmd.source = file_node.source
         /\ cmd.with_p = (file_node.key # "")
         /\ cmd.with_p =>
              /\ cmd.password = encrypt_imz_password(KeyCodes(file_node.key))
              /\ cmd.password # <<>>

\* C28: 7z is invoked with a -p argument exactly when the key attribute
\* of the unpacked node is non-empty, and the password is the transform
\* of that key; an absent or empty key gives a command line without -p.
PasswordIffKey == [][PasswordStep]_vars

\* C28 happens: a run has invoked 7z once with the transformed key "k"
\* and once without a password
UnpackedWithAndWithoutKey ==
  \E th \in Threads :
    /\ \E i \in 1..Len(th.cmds) :
         th.cmds[i].exe = "7z" /\ th.cmds[i].with_p /\ th.cmds[i].password = <<123>>
    /\ \E i \in 1..Len(th.cmds) : th.cmds[i].exe = "7z" /\ ~th.cmds[i].with_p

(* ------------------------------------------------------------------ *)
(* The same manifest run twice                                         *)
(* ------------------------------------------------------------------ *)
\* manifests of copy actions only
CopyNodes == {n \in FileNodes : n.copy = "1"}
CopyManifests == {Rmf(<<>>, f) : f \in SeqsUpTo(CopyNodes, MaxNodes)}
\* run without an overlay directory, and with the overlay of one pair
CopyRuns ==
  [rmf : CopyManifests, overlay : {NoOverlay}, patch_dir : {<<>>}]
  \cup [rmf : CopyManifests, overlay : {PairOverlay}, patch_dir : {DEFAULT_PATCH}]

\* main() has started the worker for a manifest of copy actions
InitTwice ==
  \E run \in CopyRuns :
    /\ env = [rmf |-> run.rmf, overlay |-> run.overlay]
    /\ disk = [p \in {} |-> NoTree]
    /\ log_queue = <<>>
    /\ threads = <<NewThread(run.rmf, DEFAULT_DL, run.patch_dir, DEFAULT_TARGET, FALSE)>>
    /\ focus_index = NUM_INPUTS
    /\ is_running = TRUE
    /\ input_values = [INPUT_FIELDS EXCEPT !.rmf_path = RmfPath,
                         !.source_dir = DEFAULT_DL, !.patch_dir = run.patch_dir,
                         !.target_dir = DEFAULT_TARGET]
    /\ log_lines = <<>>
    /\ log_scroll_offset = 0
    /\ user_scrolled = FALSE
    /\ ui = [Looping EXCEPT !.pc = "drain"]
    /\ req = [state |-> "nodialog", disk0 |-> disk, starts |-> 1, edits |-> 0]

\* the worker is started again with the same fields once the first run
\* has ended without a failure; req.disk0 keeps the disk the second run
\* starts from
RunAgain ==
  /\ Len(threads) = 1
  /\ threads[1].pc = "exit"
  /\ threads[1].caught = <<>>
  /\ req.starts = 1
  /\ threads' = Append(threads,
                       NewThread(env.rmf, threads[1].source_dir, threads[1].patch_dir,
                                 threads[1].target_dir, FALSE))
  /\ req' = [req EXCEPT !.disk0 = disk, !.starts = 2]
  /\ UNCHANGED <<env, disk, log_queue, focus_index, is_running, input_values,
                 log_lines, log_scroll_offset, user_scrolled, ui>>

NextTwice == WorkerNext \/ RunAgain

SpecTwice == InitTwice /\ [][NextTwice]_vars

Kinds(run_log) == [i \in 1..Len(run_log) |-> run_log[i].ev.action]
\* the records of a run for the <file> node at pos
FileEvents(th, pos) == EventsBy(th, Origin("file", pos))
BothRunsEnded ==
  /\ Len(threads) = 2
  /\ threads[1].pc = "exit" /\ threads[2].pc = "exit"
\* neither run met a failing copy, makedirs or read
NoFailure == threads[1].caught = <<>> /\ threads[2].caught = <<>>

\* C29: when a manifest of copy actions is run twice with the same
\* sources and target and no copy fails, the second run leaves the target
\* as the first run left it and logs the same sequence of kinds as the
\* first: for every node with a source one record, a COPY when the source
\* file exists.
CopyRunsIdempotent ==
  BothRunsEnded /\ NoFailure =>
    /\ disk = req.disk0
    /\ Kinds(threads[2].run_log) = Kinds(threads[1].run_log)
    /\ \A pos \in 1..Len(env.rmf.files) :
         env.rmf.files[pos].source # "" =>
           \A r \in 1..2 :
             /\ Cardinality(FileEvents(threads[r], pos)) = 1
             /\ SourceExists(DEFAULT_DL, env.rmf.files[pos].source) =>
                  \A i \in FileEvents(threads[r], pos) :
                    threads[r].run_log[i].ev.action = "COPY"

\* C29 happens: two copy actions were run twice and both runs ended
\* without a failure
CopiedTwice ==
  /\ BothRunsEnded
  /\ NoFailure
  /\ Len(env.rmf.files) = 2
  /\ \A pos \in 1..2 : SourceExists(DEFAULT_DL, env.rmf.files[pos].source)
  /\ Cardinality(EventsOf(threads[2], {"COPY"})) >= 2
  /\ disk = req.disk0

(* ------------------------------------------------------------------ *)
(* The confirmation text                                               *)
(* ------------------------------------------------------------------ *)
\* the input lines that are not white space only, in order
InputLines(text) == SelectSeq(Split(text, "\n"), LAMBDA l : Strip(l) # <<>>)
Label(l) == SubSeq(l, 1, Find(l, ":") - 1)
Value(l) == SubSeq(l, Find(l, ":") + 1, Len(l))
ShownAs(text, line_of(_)) ==
  JoinLines([i \in 1..Len(InputLines(text)) |-> line_of(InputLines(text)[i])])
OneLinePerInputLine(text, out) ==
  InputLines(text) # <<>> => Len(Split(out, "\n")) = Len(InputLines(text))

\* label padded to 8, ':', tab, value; a line without a colon as it is
Verbatim(l) ==
  IF Find(l, ":") = 0 THEN l
  ELSE Ljust(Strip(Label(l)), 8) \o <<":", "\t">> \o Strip(Value(l))
\* the same with tabs turned into spaces and the line without a colon
\* stripped
Cleaned(l) ==
  IF Find(l, ":") = 0 THEN Strip(ReplaceTabs(l))
  ELSE Ljust(Strip(ReplaceTabs(Label(l))), 8) \o <<":", "\t">>
       \o Strip(ReplaceTabs(Value(l)))

\* C30 as stated: the confirmation text has one line per non-blank input
\* line, in order; a line with a colon is shown as its label padded to 8
\* characters, ':', a tab and its value, and a line without a colon is
\* shown verbatim.
ConfirmationTextVerbatim ==
  env.fn = "format_values" =>
    \A c \in 1..Len(req.results) :
      /\ req.results[c] = ShownAs(env.args[c], Verbatim)
      /\ OneLinePerInputLine(env.args[c], req.results[c])

\* C30: the confirmation text has one line per non-blank input line, in
\* order; every tab of the input is shown as a space; a line with a colon
\* is split at its first colon and shown as its stripped label padded on
\* the right to 8 characters, ':', a tab and its stripped value; a line
\* without a colon is shown stripped of the white space around it.
ConfirmationTextCleaned ==
  env.fn = "format_values" =>
    \A c \in 1..Len(req.results) :
      /\ req.results[c] = ShownAs(env.args[c], Cleaned)
      /\ OneLinePerInputLine(env.args[c], req.results[c])

\* C30 happens: a text of a labelled line and an indented line without a
\* colon was formatted
TwoLinesFormatted ==
  /\ env.fn = "format_values"
  /\ req.state = "returned"
  /\ env.args[1] = <<"a", ":", "\n", " ", "a">>
  /\ req.results[1] =
       <<"a", " ", " ", " ", " ", " ", " ", " ", ":", "\t", "\n", "a">>

(* ------------------------------------------------------------------ *)
(* Frame conditions of the worker and of the key handlers              *)
(* ------------------------------------------------------------------ *)
MissingSkipStep ==
  \A k \in 1..Len(threads) :
    StepFrom(k, "files") /\ LoggedResult(k, "Source not found") =>
      /\ Len(Logged(k)) = 1
      /\ Logged(k)[1].ev.action = "MISSING"
      /\ TreeAfter(k) = Tree(threads[k])

\* C32: a transfer whose source file is missing is skipped before its
\* destination directory is made: the step that logs MISSING leaves the
\* target tree as it was.
MissingLeavesTarget == [][MissingSkipStep]_vars

\* the lines the START handler has written when it starts the worker
StartLines ==
  {<<StatusLine("RMF", "Parsing", "Checking for VALUES.TXT..."),
     StatusLine("Process", "Execution", "Starting worker thread...")>>,
   <<StatusLine("RMF", "Parsing", "Checking for VALUES.TXT..."),
     StatusLine("Dialog", "VALUES.TXT", "Found. Awaiting confirmation."),
     StatusLine("Process", "Execution", "Starting worker thread...")>>}

DrainedAtKeyPress ==
  /\ ui.pc \in {"input", "dialog"} /\ ~is_running => log_queue = <<>>
  /\ ~is_running => InFlight = {}
FreshStartStep ==
  Len(threads') > Len(threads) =>
    /\ log_queue = <<>> /\ log_queue' = <<>>
    /\ InFlight = {}
    /\ log_lines' \in StartLines

\* C33: when is_running is false at a key press every record enqueued so
\* far has been drained and no worker is in flight; so a worker is started
\* with an empty queue and a log that holds only the lines of this START,
\* and what the log shows afterwards comes from this run.
StartsWithEmptyQueue == []DrainedAtKeyPress /\ [][FreshStartStep]_vars

\* C33 happens: after a first run was drained a second worker has just
\* been started, with nothing on the queue and a cleared log
SecondStartIsFresh ==
  /\ req.starts = 2
  /\ is_running
  /\ Len(threads) >= 1
  /\ threads[Len(threads)].pc = "init"
  /\ log_queue = <<>>
  /\ log_lines \in StartLines

\* a step of the main loop from getch
KeyPressed == ui.pc = "input" /\ ui' # ui
ScrolledTo ==
  {log_scroll_offset, Max(0, log_scroll_offset - 1),
   Min(Max(0, Len(log_lines) - LogContentH), log_scroll_offset + 1)}

FrozenWhileRunningStep ==
  is_running =>
    /\ input_values' = input_values
    /\ focus_index' = focus_index
    /\ Len(threads') <= Len(threads)
    /\ KeyPressed =>
         /\ UNCHANGED <<env, disk, log_queue, threads, is_running, log_lines, req>>
         /\ log_scroll_offset' \in ScrolledTo
         /\ ui'.pc = "exit" =>
              log_scroll_offset' = log_scroll_offset /\ user_scrolled' = user_scrolled

\* C34: while is_running is true no step changes input_values or
\* focus_index or starts a worker, and a key press changes nothing but
\* the log scroll offset (by at most one line) and user_scrolled, or ends
\* the loop (q).
FrozenWhileRunning == [][FrozenWhileRunningStep]_vars

\* C34 happens: Up was pressed during a run, with the focus still on START
ScrolledDuringRun ==
  /\ is_running
  /\ user_scrolled
  /\ focus_index = NUM_INPUTS
  /\ InFlight # {}

\* chr(i) raises unless 0 <= i <= 0x10ffff
ValidCodePoint(i) == i \in 0..1114111

\* C35: encrypt_imz_password returns for every input a string of the
\* length of its input whose code points all lie in 48..123, so that
\* chr() is never given an invalid code point.
LengthAndRangeKept ==
  env.fn = "encrypt_imz_password" =>
    \A c \in 1..Len(req.results) :
      LET clear == IF Truthy(env.args[c]) THEN env.args[c].text ELSE <<>>
          out == req.results[c]
      IN /\ Len(out) = Len(clear)
         /\ \A i \in 1..Len(out) : out[i] \in 48..123 /\ ValidCodePoint(out[i])

\* C35 happens: one key was transformed to both ends of the range, 123
\* ('y' + 2 at offset 0) and 48 ('0' + 2 at offset 2)
BothEndsOfRange ==
  /\ env.fn = "encrypt_imz_password"
  /\ Len(req.results) >= 1
  /\ env.args[1] = Some(<<107, 97, 97>>)
  /\ req.results[1] = <<123, 49, 48>>

(* ------------------------------------------------------------------ *)
(* RecoveryLite: RecoveryManager over the RECOVERY and archives panes  *)
(* Here disk is the two directories, env the manager (its two item     *)
(* lists and errors) and req the last operation of the user interface. *)
(* ------------------------------------------------------------------ *)
Panes == {"recovery", "archives"}
\* the .CRI entries, in the order of sorted(os.listdir(d))
CriNames == <<"A.CRI", "B.CRI">>
PayloadNames == {"A.imz", "B.7z"}
FileNames == {"A.CRI", "B.CRI"} \cup PayloadNames
NoFile == [origin |-> "", image_file |-> ""]
\* a file as it lies in directory d at the start: A.CRI names no payload,
\* B.CRI has the line ImageFile="B.7z"
FileOf(d, name) ==
  [origin |-> d, image_file |-> IF name = "B.CRI" THEN "\"B.7z\"" ELSE ""]
path_exists(fs, d, name) == name \in FileNames /\ fs[d][name] # NoFile
\* os.path.splitext(entry)[0]
Base(entry) == IF entry = "A.CRI" THEN "A" ELSE "B"
\* base + ext
Join(base, ext) ==
  CASE base = "A" /\ ext = ".imz" -> "A.imz"
    [] base = "A" /\ ext = ".7z" -> "A.7z"
    [] base = "B" /\ ext = ".imz" -> "B.imz"
    [] base = "B" /\ ext = ".7z" -> "B.7z"
\* image_file.strip().strip('"').strip("'")
strip_quotes(image_file) == IF image_file = "\"B.7z\"" THEN "B.7z" ELSE image_file
\* the ImageFile value _parse_cri returns (l.170-204)
parse_cri(fs, d, entry) == fs[d][entry].image_file

\* the payload _scan_dir resolves for entry, "" for None
payload_path(fs, d, entry) ==
  LET image_file == parse_cri(fs, d, entry)
      base == Base(entry)
      found == SelectSeq(<<Join(base, ".imz"), Join(base, ".7z")>>,
                         LAMBDA alt : path_exists(fs, d, alt))
      by_basename == IF found = <<>> THEN "" ELSE found[1]
  IN IF image_file # ""
     THEN IF path_exists(fs, d, strip_quotes(image_file)) THEN strip_quotes(image_file)
          ELSE by_basename
     ELSE by_basename

scan_dir(fs, d) ==
  LET entries == SelectSeq(CriNames, LAMBDA entry : path_exists(fs, d, entry))
  IN [i \in 1..Len(entries) |->
        [dir |-> d, cri |-> entries[i],
         imz |-> payload_path(fs, d, entries[i]), selected |-> FALSE]]

\* RecoveryManager.scan, keeping errors
scan(fs, errors) ==
  [recovery_items |-> scan_dir(fs, "recovery"),
   archive_items |-> scan_dir(fs, "archives"),
   errors |-> errors]

\* shutil.move of one file into dst: a file of that name there is replaced
shutil_move(fs, src, dst, name) ==
  [fs EXCEPT ![dst][name] = fs[src][name], ![src][name] = NoFile]

CriError(item) == [msg |-> "Failed to move CRI", name |-> item.cri]
PayloadError(item) == [msg |-> "Moved CRI but failed payload", name |-> item.imz]

\* a loop body that moves the payload although the CRI stayed
move_item_payload_first(st, item, dst, fails) ==
  IF ~item.selected THEN st
  ELSE LET fs1 == IF item.imz # "" /\ path_exists(st.fs, item.dir, item.imz)
                  THEN shutil_move(st.fs, item.dir, dst, item.imz)
                  ELSE st.fs
       IN IF item.cri \in fails
          THEN [fs |-> fs1, errors |-> Append(st.errors, CriError(item))]
          ELSE [fs |-> shutil_move(fs1, item.dir, dst, item.cri),
                errors |-> st.errors]
\* the loop body of move_selected for one item; fails are the files whose
\* shutil.move raises
move_item(st, item, dst, fails) ==
  IF ~item.selected THEN st
  ELSE IF item.cri \in fails
  THEN [st EXCEPT !.errors = Append(@, CriError(item))]
  ELSE LET fs1 == shutil_move(st.fs, item.dir, dst, item.cri)
       IN IF item.imz # "" /\ path_exists(fs1, item.dir, item.imz)
          THEN IF item.imz \in fails
               THEN [fs |-> fs1, errors |-> Append(st.errors, PayloadError(item))]
               ELSE [fs |-> shutil_move(fs1, item.dir, dst, item.imz),
                     errors |-> st.errors]
          ELSE [fs |-> fs1, errors |-> st.errors]

RECURSIVE move_items(_, _, _, _)
move_items(st, items, dst, fails) ==
  IF items = <<>> THEN st
  ELSE move_items(move_item(st, Head(items), dst, fails), Tail(items), dst, fails)

MaxErrors == 2

SrcItems(from_archives) ==
  IF from_archives THEN env.archive_items ELSE env.recovery_items
DstDir(from_archives) == IF from_archives THEN "recovery" ELSE "archives"
SelectedNames(items) ==
  {items[i].cri : i \in {j \in 1..Len(items) : items[j].selected}}

\* the files move_selected may try to move
Attempted(items) ==
  UNION {{items[i].cri, items[i].imz} :
           i \in {j \in 1..Len(items) : items[j].selected}} \ {""}

LiteUnchanged ==
  UNCHANGED <<log_queue, threads, focus_index, is_running, input_values,
              log_lines, log_scroll_offset, user_scrolled, ui>>

\* after RecoveryManager.__init__: archives exists, no items, no errors
InitLite ==
  /\ \E present \in SUBSET (Panes \X FileNames) :
       disk = [d \in Panes |->
                 [name \in FileNames |->
                    IF <<d, name>> \in present THEN FileOf(d, name) ELSE NoFile]]
  /\ env = [recovery_items |-> <<>>, archive_items |-> <<>>, errors |-> <<>>]
  /\ req = [op |-> "init", from_archives |-> FALSE, selected |-> {}]
  /\ log_queue = <<>>
  /\ threads = <<>>
  /\ focus_index = 0
  /\ is_running = FALSE
  /\ input_values = INPUT_FIELDS
  /\ log_lines = <<>>
  /\ log_scroll_offset = 0
  /\ user_scrolled = FALSE
  /\ ui = Looping

\* RecoveryUI._main: self.m.scan() before the loop
FirstScan ==
  /\ req.op = "init"
  /\ env' = scan(disk, env.errors)
  /\ req' = [req EXCEPT !.op = "scan"]
  /\ UNCHANGED disk
  /\ LiteUnchanged

\* SPACE: _toggle_selection on the item under the cursor of the focused pane
toggle_selection ==
  /\ req.op # "init"
  /\ \E from_archives \in BOOLEAN :
       \E cursor_idx \in 1..Len(SrcItems(from_archives)) :
         /\ env' = IF from_archives
                   THEN [env EXCEPT !.archive_items[cursor_idx].selected = ~@]
                   ELSE [env EXCEPT !.recovery_items[cursor_idx].selected = ~@]
         /\ req' = [op |-> "toggle_selection", from_archives |-> from_archives,
                    selected |-> {}]
  /\ UNCHANGED disk
  /\ LiteUnchanged

\* ENTER: move_selected(from_archives = focus_archives), with its scan.
\* The list `remaining` (l.214-238) is replaced by scan() at l.240 before
\* anything reads it, and scan() makes every item anew with selected False
\* (l.89), which l.241-242 sets again.  os.listdir and open succeed here.
move_selected ==
  /\ req.op # "init"
  /\ \E from_archives \in BOOLEAN :
     \E fails \in SUBSET Attempted(SrcItems(from_archives)) :
       LET src_items == SrcItems(from_archives)
           done == move_items([fs |-> disk, errors |-> env.errors], src_items,
                              DstDir(from_archives), fails)
       IN /\ Len(done.errors) <= MaxErrors
          /\ disk' = done.fs
          /\ env' = scan(done.fs, done.errors)
          /\ req' = [op |-> "move_selected", from_archives |-> from_archives,
                     selected |-> SelectedNames(src_items)]
  /\ LiteUnchanged

NextLite == FirstScan \/ toggle_selection \/ move_selected

SpecLite == InitLite /\ [][NextLite]_vars

\* a step of move_selected, its panes and the errors it appended
Moving == req'.op = "move_selected"
MovedFrom == IF req'.from_archives THEN "archives" ELSE "recovery"
MovedTo == DstDir(req'.from_archives)
NewErrors == SubSeq(env'.errors, Len(env.errors) + 1, Len(env'.errors))
Reported(error) == \E e \in 1..Len(NewErrors) : NewErrors[e] = error
\* the items of the source pane that were selected, and the others
SelectedItems ==
  LET items == SrcItems(req'.from_archives)
  IN {items[i] : i \in {j \in 1..Len(items) : items[j].selected}}
KeptItems ==
  LET items == SrcItems(req'.from_archives)
  IN {items[i] : i \in {j \in 1..Len(items) : ~items[j].selected}}
OtherPaneItems ==
  LET items == SrcItems(~req'.from_archives)
  IN {items[i] : i \in 1..Len(items)}

CriMoved(item) ==
  /\ disk'[MovedFrom][item.cri] = NoFile
  /\ disk'[MovedTo][item.cri] = disk[MovedFrom][item.cri]
PayloadMoved(item) ==
  /\ disk'[MovedFrom][item.imz] = NoFile
  /\ disk'[MovedTo][item.imz] = disk[MovedFrom][item.imz]
PayloadKept(item) ==
  item.imz # "" => disk'[MovedFrom][item.imz] = disk[MovedFrom][item.imz]

MovedTogetherStep ==
  Moving =>
    \A item \in SelectedItems :
      disk'[MovedFrom][item.cri] = NoFile =>
        /\ CriMoved(item)
        /\ item.imz # "" => PayloadMoved(item)
\* C31: after move_selected, every selected item whose CRI was moved has
\* its CRI and its payload (when it had one) in the destination directory
\* and neither in the source directory.
MovedTogether == [][MovedTogetherStep]_vars

AllItems(m) ==
  {m.recovery_items[i] : i \in 1..Len(m.recovery_items)}
  \cup {m.archive_items[i] : i \in 1..Len(m.archive_items)}

OthersUntouchedStep ==
  Moving =>
    /\ \A item \in AllItems(env') : ~item.selected
    /\ \A item \in KeptItems :
         disk'[MovedFrom][item.cri] = disk[MovedFrom][item.cri]
    /\ \A item \in OtherPaneItems :
         disk'[MovedTo][item.cri] = disk[MovedTo][item.cri]
\* C36: after move_selected no item of either pane is selected, and every
\* unselected item of the source pane and every item of the other pane is
\* still in the directory it was in.
OthersUntouched == [][OthersUntouchedStep]_vars

CriFailed(item) ==
  /\ disk'[MovedFrom][item.cri] = disk[MovedFrom][item.cri]
  /\ Reported(CriError(item))
  /\ PayloadKept(item)
  /\ ~Reported(PayloadError(item))
PayloadFailed(item) ==
  /\ item.imz # ""
  /\ disk'[MovedFrom][item.imz] = disk[MovedFrom][item.imz]
  /\ Reported(PayloadError(item))
FailuresHandledStep ==
  Moving =>
    /\ \A item \in SelectedItems :
         \/ CriFailed(item)
         \/ /\ CriMoved(item)
            /\ ~Reported(CriError(item))
            /\ \/ item.imz = ""
               \/ PayloadMoved(item) /\ ~Reported(PayloadError(item))
               \/ PayloadFailed(item)
    /\ \A e \in 1..Len(NewErrors) :
         \E item \in SelectedItems : NewErrors[e] \in {CriError(item), PayloadError(item)}
    /\ SubSeq(env'.errors, 1, Len(env.errors)) = env.errors
\* C37: in move_selected a selected item whose CRI move fails gets an error
\* appended and keeps its payload in place, an item whose CRI moved but
\* whose payload move fails gets an error appended, and every other
\* selected item is processed all the same.
FailuresHandled == [][FailuresHandledStep]_vars

\* C37 happens: of two selected modules the first kept its CRI and its
\* payload, the second moved its CRI and kept its payload
BothFailuresInOneMove ==
  /\ req.op = "move_selected"
  /\ ~req.from_archives
  /\ req.selected = {"A.CRI", "B.CRI"}
  /\ env.errors = <<[msg |-> "Failed to move CRI", name |-> "A.CRI"],
                    [msg |-> "Moved CRI but failed payload", name |-> "B.7z"]>>
  /\ disk["recovery"]["A.CRI"].origin = "recovery"
  /\ disk["recovery"]["A.imz"].origin = "recovery"
  /\ disk["archives"]["B.CRI"].origin = "recovery"
  /\ disk["recovery"]["B.7z"].origin = "recovery"

CriFiles(fs) ==
  {<<d, name>> \in Panes \X {"A.CRI", "B.CRI"} : fs[d][name] # NoFile}
ListedOnce(fs, m) ==
  \A f \in CriFiles(fs) :
    Cardinality({item \in AllItems(m) : item.dir = f[1] /\ item.cri = f[2]}) = 1
ConservedStep ==
  Moving /\ env'.errors = env.errors =>
    /\ Cardinality(CriFiles(disk')) = Cardinality(CriFiles(disk))
    /\ ListedOnce(disk', env')
\* C38: a move_selected that reports no error leaves the number of .CRI
\* files of the two directories unchanged and lists each module in
\* exactly one pane.
ModulesConserved == [][ConservedStep]_vars

====
